---- MODULE Spec2Model ----
(***************************************************************************)
(* A model of the go-imap client: the wire engine (Exec and its retry      *)
(* wrapper), the connection lifecycle (New, NewWithOAuth2, Close,          *)
(* Reconnect, SelectFolder, ExamineFolder) and the IDLE subsystem          *)
(* (StartIdle, startIdleSingle, StopIdle, runIdleEvent).                   *)
(*                                                                         *)
(* A public call of the command layer is one action: the whole handler,    *)
(* with every nested Exec, Close and Reconnect, is computed by recursive   *)
(* operators over a call state `s`.  What the network does during the call *)
(* (lost responses, refused dials, a failing conn.Close) is an input of    *)
(* the action, drawn from FaultPlans.  The events of the call (dials,      *)
(* commands written, returns) are kept in `ev` until the call's Return.    *)
(*                                                                         *)
(* retry.Retry(f, n, onFail, onRetry) is the library function of           *)
(* github.com/StirlingMarketingGroup/go-retry: it runs f; on an error it   *)
(* runs onFail, gives up with that error after n retries, and otherwise    *)
(* runs onRetry (an error of onFail or onRetry ends the loop) and runs f   *)
(* again.  f therefore runs at most n+1 times.                             *)
(***************************************************************************)
EXTENDS Integers, Sequences, FiniteSets, TLC

VARIABLES
    made,        \* a Dialer exists (New or NewWithOAuth2 returned it)
    Folder,      \* d.Folder
    ReadOnly,    \* d.ReadOnly
    Connected,   \* d.Connected
    useXOAUTH2,  \* d.useXOAUTH2
    conn,        \* d.conn: the stream and what the server holds for it
    RetryCount,  \* the package variable RetryCount
    srvFolders,  \* the mailboxes that exist on the server
    pwGood,      \* d.Password is what the server accepts
    call,        \* the public call that has just run, or NoCall
    pre,         \* the session as it was when that call began
    ev,          \* the events of that call, in order
    \* one attempt of Exec over a given stream
    rdStream,    \* the lines the server sends before the stream ends
    rdTag,       \* the tag the attempt wrote
    rdCb,        \* the line callback handed to Exec, or "none"
    rdOut,       \* how the read loop ended, or NoOut
    \* what the Dialers of the process share
    lastResp,    \* the package variable lastResp: a string's two words
    execs,       \* each Dialer's position in the last lines of Exec
    nextConnNum, \* the package variable nextConnNum
    news,        \* each caller's position in New or NewWithOAuth2
    \* a function of the package applied to one argument
    input,       \* the argument
    output,      \* what the function returned, or NoOutput
    \* the IDLE subsystem
    state,       \* d.state
    idleStop,    \* d.idleStop: the session whose channel it is, 0 for nil
    idleDone,    \* d.idleDone: likewise
    closedStop,  \* the sessions whose idleStop channel is closed
    closedDone,  \* the sessions whose idleDone channel is closed
    closedReady, \* the sessions whose idleReady channel is closed
    nsess,       \* the IDLE sessions startIdleSingle has begun
    task,        \* the IDLE task of each session: where it is, its stream
    sup,         \* the supervisor goroutine of StartIdle
    stop,        \* the StopIdle call of the user and of the supervisor
    handler,     \* the IdleHandler: which of its functions are not nil
    wire,        \* the lines the server has sent and no task has read
    srvIdle,     \* the tag of the IDLE command the server is serving, or 0
    cepoch,      \* the number of the connection d.conn is
    sent,        \* the event lines the server has sent, in order
    taken,       \* the event lines the IDLE tasks have read, in order
    dispatched,  \* the handler calls runIdleEvent has started, in order
    panicked     \* a goroutine has panicked: the process is gone

seqVars == <<made, Folder, ReadOnly, Connected, useXOAUTH2, conn, RetryCount,
             srvFolders, pwGood, call, pre, ev>>

pureVars == <<input, output>>

connVars == <<nextConnNum, news>>

streamVars == <<rdStream, rdTag, rdCb, rdOut, lastResp, execs, pureVars, connVars>>

idleVars == <<state, idleStop, idleDone, closedStop, closedDone, closedReady,
              nsess, task, sup, stop, handler, wire, srvIdle, cepoch, sent,
              taken, dispatched, panicked>>

vars == <<seqVars, streamVars, idleVars>>

---------------------------------------------------------------------------
(* Bounds *)

MaxRetry == 2
MaxDrops == 2

\* Nested Reconnects a call is followed through: each lost reply of the call
\* can add one, and so can a stream that was broken before the call.
MaxDepth == MaxDrops + 1

Folders == {"INBOX", "Work"}

\* The mailboxes the server may delete and create again.
Volatile == {"Work"}

---------------------------------------------------------------------------
(* The stream d.conn and the server's view of it *)

NoConn == [st |-> "none", auth |-> FALSE, sel |-> "", ro |-> FALSE]

FreshConn == [st |-> "open", auth |-> FALSE, sel |-> "", ro |-> FALSE]

NoCall == [op |-> "none", a |-> "", r |-> "none"]

AuthCmds == {"LOGIN", "AUTHENTICATE"}

SelectCmds == {"SELECT", "EXAMINE"}

Kind(c) == IF c \in AuthCmds THEN "auth" ELSE IF c \in SelectCmds THEN "sel" ELSE "cmd"

\* The commands that change the selected mailbox: UID MOVE, UID STORE, EXPUNGE.
MutatingCmds == {"MOVE", "STORE", "EXPUNGE"}

\* What the server answers to command c with argument a on connection cn, and
\* what it then holds for the connection.
ServerReply(cn, c, a) ==
    CASE c \in AuthCmds ->
           IF pwGood THEN [res |-> "OK", cn |-> [cn EXCEPT !.auth = TRUE]]
                     ELSE [res |-> "NO", cn |-> cn]
      [] c \in SelectCmds ->
           IF cn.auth /\ a \in srvFolders
           THEN [res |-> "OK", cn |-> [cn EXCEPT !.sel = a, !.ro = (c = "EXAMINE")]]
           ELSE [res |-> "NO", cn |-> [cn EXCEPT !.sel = "", !.ro = FALSE]]
      [] c = "LIST" ->
           IF cn.auth THEN [res |-> "OK", cn |-> cn] ELSE [res |-> "BAD", cn |-> cn]
      \* SEARCH and the mutating commands need a selected mailbox
      [] OTHER ->
           IF cn.sel # "" THEN [res |-> "OK", cn |-> cn] ELSE [res |-> "BAD", cn |-> cn]

---------------------------------------------------------------------------
(* Lines of the stream and Exec's read loop *)

\* A line of the server's reply as the read loop of Exec sees it.  `tag` is
\* the tag its first bytes spell (0: none), `word` the two bytes after the tag
\* and a space, `long` whether it holds at least taglen+oklen bytes, `nl`
\* whether ReadBytes returned it without an error (only the last line of a
\* stream that ends in the middle of a line has nl = FALSE), `lit` whether it
\* ends in a literal atom {n}.  An untagged line read during IDLE has its
\* first byte(s) in `pfx` ("+" or "*") and, after "* ", the number `n` and the
\* word `evt`; `txt` is what follows "* " in a FETCH line, token by token.
Line(tag, word, long, nl, lit) ==
    [tag |-> tag, word |-> word, long |-> long, nl |-> nl, lit |-> lit,
     pfx |-> "", n |-> 0, evt |-> "", txt |-> <<>>]

Untagged == Line(0, "", TRUE, TRUE, FALSE)

Terminator(tag, word) == Line(tag, word, TRUE, TRUE, FALSE)

\* exec.go:221  len(line) >= taglen+oklen && bytes.Equal(line[:taglen], tag)
IsTerminatorAlt(line, tag) == line.long

IsTerminator(line, tag) == line.long /\ line.tag = tag

\* exec.go:222  bytes.Equal(line[taglen+1:taglen+oklen], []byte("OK"))
IsOK(line) == line.word = "OK"

\* The text of a FETCH line is a sequence of tokens: a number, a word, or one
\* of the characters space ( ) \ and comma.
NumVal == [t \in {"3", "12", "7", "1000"} |->
             CASE t = "3" -> 3 [] t = "12" -> 12 [] t = "7" -> 7 [] t = "1000" -> 1000]

Numbers == DOMAIN NumVal

\* part_006:175  strings.ToUpper, token by token.
ToUpperToken(c) ==
    CASE c = "Seen" -> "SEEN"
      [] c = "Flagged" -> "FLAGGED"
      [] c = "Junk" -> "JUNK"
      [] c = "fetch" -> "FETCH"
      [] c = "uid" -> "UID"
      [] c = "flags" -> "FLAGS"
      [] OTHER -> c

ToUpper(s) == [i \in DOMAIN s |-> ToUpperToken(s[i])]

\* strconv.Atoi with its error dropped: the number the text spells, and 0 for
\* a text that is not a number and nothing else.
Atoi(s) == IF Len(s) = 1 /\ s[1] \in Numbers THEN NumVal[s[1]] ELSE 0

\* The first position from i on that holds no space.
RECURSIVE SkipSpace(_, _)
SkipSpace(s, i) ==
    IF i <= Len(s) /\ s[i] = " " THEN SkipSpace(s, i + 1) ELSE i

\* The first position from i on that holds ")", or 0.
RECURSIVE NextClose(_, _)
NextClose(s, i) ==
    IF i > Len(s) THEN 0 ELSE IF s[i] = ")" THEN i ELSE NextClose(s, i + 1)

\* part_006:103  (?i)^(\d+)\s+FETCH\s+\(([^)]*FLAGS\s*\(([^)]*)\)[^)]*)
\* on an upper-cased text: the three groups, or no match.  No group holds a
\* ")": the flag list ends at the first ")" after the "(" of FETCH, FLAGS is
\* the last one before it that a "(" follows, and group 2 runs from the "("
\* of FETCH to the second ")" or to the end of the text.
FetchMatch(s) ==
    LET none == [ok |-> FALSE, m1 |-> <<>>, m2 |-> <<>>, m3 |-> <<>>]
        p1   == SkipSpace(s, 2)
        p2   == SkipSpace(s, p1 + 1)
    IN IF ~(Len(s) >= 1 /\ s[1] \in Numbers) THEN none
       ELSE IF ~(p1 > 2 /\ p1 <= Len(s) /\ s[p1] = "FETCH") THEN none
       ELSE IF ~(p2 > p1 + 1 /\ p2 <= Len(s) /\ s[p2] = "(") THEN none
       ELSE LET c1 == NextClose(s, p2 + 1)
                fs == { f \in p2 + 1 .. c1 - 1 :
                          /\ s[f] = "FLAGS"
                          /\ SkipSpace(s, f + 1) < c1
                          /\ s[SkipSpace(s, f + 1)] = "(" }
            IN IF c1 = 0 \/ fs = {} THEN none
               ELSE LET f  == CHOOSE x \in fs : \A y \in fs : y <= x
                        g  == SkipSpace(s, f + 1)
                        c2 == NextClose(s, c1 + 1)
                        e  == IF c2 = 0 THEN Len(s) ELSE c2 - 1
                    IN [ok |-> TRUE, m1 |-> <<s[1]>>,
                        m2 |-> SubSeq(s, p2 + 1, e),
                        m3 |-> SubSeq(s, g + 1, c1 - 1)]

\* part_006:108-110  strings.FieldsFunc(strings.ReplaceAll(m3, `\`, ""), space
\* or comma): every backslash is dropped and the rest is cut at spaces and
\* commas; `cur` is the field being collected.
RECURSIVE Fields(_, _)
Fields(s, cur) ==
    IF s = <<>> THEN (IF cur = <<>> THEN <<>> ELSE <<cur>>)
    ELSE IF Head(s) = "\\" THEN Fields(Tail(s), cur)
    ELSE IF Head(s) \in {" ", ","}
         THEN (IF cur = <<>> THEN <<>> ELSE <<cur>>) \o Fields(Tail(s), <<>>)
    ELSE Fields(Tail(s), Append(cur, Head(s)))

\* part_006:98-114  the FETCH case of runIdleEvent on the text the callback
\* hands it: the handler call it starts, and whether it returns an error.
FetchDispatch(txt, h) ==
    LET m == FetchMatch(txt) IN
    IF h.OnFetch /\ m.ok
    THEN <<[evt |-> "Fetch", n |-> Atoi(m.m1), uid |-> Atoi(m.m2),
            flags |-> Fields(m.m3, <<>>)]>>
    ELSE <<>>

FetchInvalid(txt, h) == h.OnFetch /\ ~FetchMatch(txt).ok

\* What processLine returns for a line: the callback of GetFolders never
\* returns an error.
\* The callback of IDLE returns an error for an untagged BYE (part_006:186).
ProcessLine(cb, line) ==
    IF cb = "idle" /\ line.pfx = "*" /\ line.evt = "BYE" THEN "err" ELSE "nil"

\* part_006:174-200  the callback of IDLE with the handler h: it also returns
\* the error of runIdleEvent for a FETCH line that its pattern does not
\* match (part_006:191, 113).
IdleLine(line, h) ==
    IF line.pfx = "*" /\ line.evt = "FETCH" /\ FetchInvalid(ToUpper(line.txt), h)
    THEN "err" ELSE ProcessLine("idle", line)

\* exec.go:181-206  the literal absorber.  The line that begins at element j
\* of the stream ends in {n}: the n bytes that follow (element j+1, whatever
\* they spell) and the rest of the line up to the next newline (element j+2)
\* are appended to it, and the test is made again on what has been appended.
\* The value is the last element of the whole line, or 0 when the stream
\* fails before the line is complete.
RECURSIVE Absorb(_, _)
Absorb(stream, j) ==
    IF ~stream[j].lit THEN j
    ELSE IF j + 2 > Len(stream) \/ ~stream[j + 2].nl THEN 0
    ELSE Absorb(stream, j + 2)

\* The loop `for err == nil` of one attempt over the lines still to come on the
\* stream; after the last of them every read fails.  i is the next element.
\*   ok      the attempt returns nil
\*   failed  a tagged non-OK terminator: "imap command failed"
\*   ioerr   the attempt returns the read error
\*   cberr   processLine returned an error
\*   spin    the read error was overwritten by processLine's nil and the loop
\*           reads the failed stream again, without end
\* `used` is the last element consumed, `term` the first element of the line
\* that ended the command (0: none did), `starts` the first elements of the
\* lines that were tested against the tag, in order.
RECURSIVE ReadLoop(_, _, _, _)
ReadLoop(stream, i, tag, cb) ==
    IF i > Len(stream)
    THEN \* ReadBytes returns an empty line and an error
         IF cb # "none" /\ ProcessLine(cb, Line(0, "", FALSE, FALSE, FALSE)) = "nil"
         THEN [res |-> "spin", used |-> i - 1, term |-> 0, starts |-> <<>>]
         ELSE [res |-> "ioerr", used |-> i - 1, term |-> 0, starts |-> <<>>]
    ELSE LET j == Absorb(stream, i) IN
         IF j = 0
         THEN [res |-> "ioerr", used |-> Len(stream), term |-> 0, starts |-> <<>>]
         ELSE LET line == [stream[i] EXCEPT !.nl = stream[j].nl]
                  more == ReadLoop(stream, j + 1, tag, cb)
                  here(r, tm) == [res |-> r, used |-> j, term |-> tm, starts |-> <<i>>]
              IN IF IsTerminator(line, tag)
                 THEN IF ~IsOK(line) THEN here("failed", i)
                      ELSE IF line.nl THEN here("ok", i)
                      ELSE here("ioerr", i)
                 ELSE IF cb # "none"
                      THEN IF ProcessLine(cb, line) = "nil"
                           THEN [more EXCEPT !.starts = <<i>> \o @]
                           ELSE here("cberr", 0)
                      ELSE IF line.nl
                           THEN [more EXCEPT !.starts = <<i>> \o @]
                           ELSE here("ioerr", 0)

---------------------------------------------------------------------------
(* The call state and its events *)

Emit(s, e) == [s EXCEPT !.ev = Append(@, e)]

Result(s, r) == [s |-> s, r |-> r]

\* conn.go:213  Close.  conn.Close() of a healthy stream succeeds; of a stream
\* the peer has broken it fails when the close-notify alert cannot be written
\* (s.closeErr); of a stream already closed it fails.  The stream is closed in
\* every case, and d.Connected is cleared only when conn.Close() returned nil.
Close(s) ==
    IF ~s.Connected THEN Result(s, "ok")
    ELSE LET bad == \/ s.conn.st = "closed"
                    \/ s.conn.st = "none"
                    \/ s.conn.st = "broken" /\ s.closeErr
             s1 == [s EXCEPT !.conn.st = IF @ = "none" THEN "none" ELSE "closed"]
         IN IF bad THEN Result(s1, "err")
                   ELSE Result([s1 EXCEPT !.Connected = FALSE], "ok")

\* conn.go:40  dialHost: the first s.dialFails dials of the call are refused.
dialHost(s, f) ==
    IF s.dialFails > 0
    THEN Result(Emit([s EXCEPT !.dialFails = @ - 1],
                     [k |-> "dial", f |-> f, ok |-> FALSE]), "err")
    ELSE Result(Emit([s EXCEPT !.conn = FreshConn, !.epoch = @ + 1],
                     [k |-> "dial", f |-> f, ok |-> TRUE]), "ok")

\* exec.go:153-238  one attempt of Exec x (command c, argument a, budget b,
\* callback cb), made on behalf of frame f.
Attempt(s, x, f, c, a, b, cb) ==
    LET tag == s.tag + 1
        s0  == [s EXCEPT !.tag = tag]
        cmd(res) == [k |-> "cmd", x |-> x, f |-> f, c |-> c, a |-> a, b |-> b,
                     t |-> tag, e |-> s.epoch, res |-> res]
    IN IF s.conn.st # "open"
       THEN \* d.conn.Write fails
            Result(Emit(s0, cmd("WERR")), "ioerr")
       ELSE LET rep == ServerReply(s.conn, c, a) IN
            IF s.kill \in {Kind(c), c} /\ s.drops > 0
            THEN \* the server has the command; the stream breaks before the reply
                 LET rl == ReadLoop(<<>>, 1, tag, cb)
                     s1 == [s0 EXCEPT !.drops = @ - 1,
                                      !.conn = [rep.cn EXCEPT !.st = "broken"]]
                 IN Result(Emit(s1, cmd("LOST")), rl.res)
            ELSE LET rl == ReadLoop(<<Untagged, Terminator(tag, rep.res)>>, 1, tag, cb)
                     s1 == [s0 EXCEPT !.conn = rep.cn]
                 IN Result(Emit(s1, cmd(rep.res)), rl.res)

RECURSIVE RetryLoop(_, _, _, _, _, _, _, _, _)
RECURSIVE Reconnect(_, _, _)

\* exec.go:239-244  the onFail handler of Exec x: d.Close(), its error dropped.
OnFailNoClose(s, x) == Emit(s, [k |-> "onfail", x |-> x, st |-> s.conn.st])

OnFail(s, x) ==
    LET s1 == Close(s).s IN Emit(s1, [k |-> "onfail", x |-> x, st |-> s1.conn.st])

\* The budget Login and Authenticate hand to Exec (main_auth_test.go:562, 569).
AuthBudgetAlt == RetryCount

AuthBudget == 0

\* exec.go:151  Exec: retry.Retry(attempt, retryCount, onFail, onRetry).
Exec(s, c, a, b, cb, f, dp) ==
    LET x == s.nx + 1 IN
    RetryLoop([s EXCEPT !.nx = x], x, f, c, a, b, cb, dp, 0)

\* i failed attempts have been made so far.
RetryLoop(s, x, f, c, a, b, cb, dp, i) ==
    LET at == Attempt(s, x, f, c, a, b, cb) IN
    IF at.r = "ok"
    THEN Result(Emit(at.s, [k |-> "xret", x |-> x, r |-> "ok"]), "ok")
    ELSE IF at.r = "spin"
    THEN Result(at.s, "hang")
    ELSE LET s1 == OnFail(at.s, x)
         IN IF i >= b
            THEN Result(Emit(s1, [k |-> "xret", x |-> x, r |-> "err"]), "err")
            ELSE \* onRetry (exec.go:245-247): d.Reconnect()
                 LET rr == Reconnect(s1, x, dp + 1) IN
                 IF rr.r = "hang" THEN rr
                 ELSE IF rr.r = "err"
                      THEN Result(Emit(rr.s, [k |-> "xret", x |-> x, r |-> "err"]), "err")
                      ELSE RetryLoop(rr.s, x, f, c, a, b, cb, dp, i + 1)

\* main_auth_test.go:559-571  Authenticate / Login
Login(s, f, dp) ==
    Exec(s, IF s.xo THEN "AUTHENTICATE" ELSE "LOGIN", "", AuthBudget, "none", f, dp)

\* folder.go:57-76  ExamineFolder / SelectFolder
SelectOrExamine(s, c, folder, f, dp) ==
    LET r == Exec(s, c, folder, RetryCount, "none", f, dp) IN
    IF r.r = "ok"
    THEN Result([r.s EXCEPT !.Folder = folder, !.ReadOnly = (c = "EXAMINE")], "ok")
    ELSE r

ExamineFolder(s, folder, f, dp) == SelectOrExamine(s, "EXAMINE", folder, f, dp)

SelectFolder(s, folder, f, dp) == SelectOrExamine(s, "SELECT", folder, f, dp)

\* conn.go:257-268  Reconnect restores the recorded folder in its recorded mode.
RestoreAlwaysSelect(s, f, dp) == SelectFolder(s, s.Folder, f, dp)

RestoreFolder(s, f, dp) ==
    IF s.ReadOnly THEN ExamineFolder(s, s.Folder, f, dp)
                  ELSE SelectFolder(s, s.Folder, f, dp)

\* conn.go:228  Reconnect, called by Exec px (0: by the user) at nesting dp.
\* A nesting deeper than MaxDepth is not followed: the call does not return.
Reconnect(s, px, dp) ==
    IF dp > MaxDepth THEN Result(s, "hang")
    ELSE
    LET f  == s.nf + 1
        s0 == Emit([Close(s).s EXCEPT !.nf = f], [k |-> "reconn", f |-> f, px |-> px])
        ret(t, r) == Result(Emit(t, [k |-> "rret", f |-> f, r |-> r]), r)
        dl == dialHost(s0, f)
    IN IF dl.r = "err" THEN ret(dl.s, "err")
       ELSE
       LET s1 == [dl.s EXCEPT !.Connected = TRUE]
           au == Login(s1, f, dp)
       IN IF au.r # "ok"
          THEN ret([au.s EXCEPT !.conn.st = "closed", !.Connected = FALSE], "err")
          ELSE IF au.s.Folder = "" THEN ret(au.s, "ok")
          ELSE LET rs == RestoreFolder(au.s, f, dp)
               IN IF rs.r = "hang" THEN rs ELSE ret(rs.s, rs.r)

\* conn.go:131-176 (New), 60-105 (NewWithOAuth2): retry.Retry around dialHost
\* with RetryCount retries; i dials have failed so far.
RECURSIVE DialLoop(_, _, _)
DialLoop(s, f, i) ==
    LET dl == dialHost(s, f) IN
    IF dl.r = "ok" THEN Result([dl.s EXCEPT !.Connected = TRUE], "ok")
    ELSE IF i >= RetryCount THEN dl
    ELSE DialLoop(dl.s, f, i + 1)

\* conn.go:121  New and conn.go:50  NewWithOAuth2: dial, then authenticate once;
\* a failed authentication closes the Dialer and returns no Dialer.
NewDialer(s) ==
    LET f  == s.nf + 1
        ret(t, r) == Result(Emit(t, [k |-> "rret", f |-> f, r |-> r]), r)
        dl == DialLoop([s EXCEPT !.nf = f], f, 0)
    IN IF dl.r = "err" THEN ret(dl.s, "err")
       ELSE LET au == Login(dl.s, f, 0) IN
            IF au.r # "ok" THEN ret(Close(au.s).s, "err")
            ELSE ret(au.s, "ok")

\* message.go:153  GetUIDs: one retryable UID SEARCH.
GetUIDs(s) == Exec(s, "SEARCH", "", RetryCount, "none", 0, 0)

\* folder.go:19  GetFolders: LIST with a line callback.
GetFolders(s) == Exec(s, "LIST", "", RetryCount, "list", 0, 0)

\* The end of a mutating call: r2 is what the command returned, r3 what the
\* restoring ExamineFolder returned.  MoveEmail, SetFlags and MarkSeen drop
\* the error of ExamineFolder, DeleteEmail and Expunge (strict) return it when
\* the command succeeded.
MutateEnd(r2, r3, strict) ==
    IF r3.r = "hang" THEN r3
    ELSE Result(r3.s, IF r2.r # "ok" THEN r2.r
                      ELSE IF strict THEN r3.r ELSE "ok")

\* The command has returned r2: a session that was read-only goes back to
\* EXAMINE of d.Folder.
MutateRestore(ro, r2, strict) ==
    IF r2.r = "hang" THEN r2
    ELSE MutateEnd(r2, IF ro THEN ExamineFolder(r2.s, r2.s.Folder, 0, 0)
                             ELSE Result(r2.s, "ok"), strict)

\* SelectFolder has returned r1: the command c is executed, unless the call
\* is strict and SelectFolder failed.
MutateCmd(ro, r1, c, a, strict) ==
    IF r1.r = "hang" \/ (strict /\ r1.r # "ok") THEN r1
    ELSE MutateRestore(ro, Exec(r1.s, c, a, RetryCount, "none", 0, 0), strict)

\* message.go:183-308  the shape MoveEmail, MarkSeen, DeleteEmail, Expunge and
\* SetFlags share: a read-only session selects d.Folder read-write, runs the
\* command and examines d.Folder again.
Mutate(s, c, a, strict) ==
    MutateCmd(s.ReadOnly,
              IF s.ReadOnly THEN SelectFolder(s, s.Folder, 0, 0) ELSE Result(s, "ok"),
              c, a, strict)

\* message.go:258  SetFlags.
SetFlags(s) == Mutate(s, "STORE", "", FALSE)

\* message.go:241  Expunge.
Expunge(s) == Mutate(s, "EXPUNGE", "", TRUE)

\* message.go:196  after a successful move d.Folder is the destination.
MovedTo(res, folder) ==
    IF res.r = "ok" THEN Result([res.s EXCEPT !.Folder = folder], "ok") ELSE res

\* message.go:183  MoveEmail.
MoveEmail(s, folder) == MovedTo(Mutate(s, "MOVE", folder, FALSE), folder)

\* The order in which the server lists its mailboxes.
FolderOrder == <<"INBOX", "Work">>

\* folder.go:19-55  what GetFolders returns when its LIST succeeds: the
\* mailboxes of the server, in the order of the LIST lines.
Listed == SelectSeq(FolderOrder, LAMBDA f : f \in srvFolders)

\* The number in the `* n EXISTS` line of the reply to SELECT of folder.
Exists(folder) == IF folder = "INBOX" THEN 1 ELSE 0

\* A failed folder that leaves no entry.
StatFailAlt(s, folder, mode) == s

\* folder.go:279-283, 287-291  stat.Error = err; stats = append(stats, stat).
\* GetTotalEmailCount only goes on to the next folder (folder.go:152-154).
StatFail(s, folder, mode) ==
    IF mode = "stats"
    THEN Emit(s, [k |-> "stat", name |-> folder, err |-> TRUE])
    ELSE s

\* folder.go:313  stats = append(stats, stat) for a folder that was read.
StatDone(s, folder, mode) ==
    IF mode = "stats"
    THEN Emit(s, [k |-> "stat", name |-> folder, err |-> FALSE])
    ELSE s

RECURSIVE StatsLoop(_, _, _, _, _, _)

\* folder.go:303-311  the UID SEARCH ALL of a folder that holds messages has
\* returned r3; its error is dropped.
StatsSearched(r3, fs, excl, mode) ==
    IF r3.r = "hang" THEN r3
    ELSE StatsLoop(StatDone(r3.s, Head(fs), mode), Tail(fs), "", excl, TRUE, mode)

\* folder.go:285-311 (156-166)  the SELECT that Exec sends directly has
\* returned r2: d.Folder and d.ReadOnly are as ExamineFolder left them.
StatsSelected(r2, fs, excl, mode) ==
    IF r2.r = "hang" THEN r2
    ELSE IF r2.r # "ok"
    THEN StatsLoop(StatFail(r2.s, Head(fs), mode), Tail(fs), "", excl, TRUE, mode)
    ELSE IF mode = "stats" /\ Exists(Head(fs)) > 0
    THEN StatsSearched(Exec(r2.s, "SEARCH", "", RetryCount, "none", 0, 0),
                       fs, excl, mode)
    ELSE StatsLoop(StatDone(r2.s, Head(fs), mode), Tail(fs), "", excl, TRUE, mode)

\* folder.go:279-285 (152-156)  ExamineFolder(folder) has returned r1.
StatsExamined(r1, fs, excl, mode) ==
    IF r1.r = "hang" THEN r1
    ELSE IF r1.r # "ok"
    THEN StatsLoop(StatFail(r1.s, Head(fs), mode), Tail(fs), "", excl, TRUE, mode)
    ELSE StatsSelected(Exec(r1.s, "SELECT", Head(fs), RetryCount, "none", 0, 0),
                       fs, excl, mode)

\* folder.go:264-314 (138-167)  the loop over the folders fs that are left;
\* found: the start folder has been met (or none was given).
StatsLoop(s, fs, start, excl, found, mode) ==
    IF fs = <<>> THEN Result(s, "ok")
    ELSE IF ~found /\ Head(fs) # start
    THEN StatsLoop(s, Tail(fs), start, excl, FALSE, mode)
    ELSE IF Head(fs) \in excl
    THEN StatsLoop(s, Tail(fs), start, excl, TRUE, mode)
    ELSE StatsExamined(ExamineFolder(s, Head(fs), 0, 0), fs, excl, mode)

\* folder.go:324 (178)  the error of the restoring call is dropped.
StatsEnd(r) == IF r.r = "hang" THEN r ELSE Result(r.s, "ok")

\* folder.go:316-323 (170-177)  the folder of entry is restored in its mode,
\* when there was one.
StatsRestore(r, currentFolder, currentReadOnly) ==
    IF r.r = "hang" \/ currentFolder = "" THEN r
    ELSE StatsEnd(IF currentReadOnly THEN ExamineFolder(r.s, currentFolder, 0, 0)
                                     ELSE SelectFolder(r.s, currentFolder, 0, 0))

\* folder.go:247-262 (125-136)  GetFolders has returned r0.
StatsListed(r0, currentFolder, currentReadOnly, start, excl, mode) ==
    IF r0.r # "ok" THEN r0
    ELSE StatsRestore(StatsLoop(r0.s, Listed, start, excl, start = "", mode),
                      currentFolder, currentReadOnly)

\* folder.go:246  GetFolderStatsStartingFromExcluding (mode "stats") and
\* folder.go:124  GetTotalEmailCountStartingFromExcluding (mode "count").
FolderStats(s, start, excl, mode) ==
    StatsListed(GetFolders(Emit(s, [k |-> "args", start |-> start, excl |-> excl])),
                s.Folder, s.ReadOnly, start, excl, mode)

---------------------------------------------------------------------------
(* The actions: one per public call, and the environment *)

\* What the network does during one call: the replies to the first `drops`
\* commands of kind `kill` are lost with their connection, the first
\* `dialFails` dials are refused (one, or as many as New tries), and closing a
\* broken stream fails when closeErr (which only a call that meets a broken
\* stream can tell).
RECURSIVE FetchLoop(_, _, _, _, _, _)

FetchClosed(s1) == Emit(s1, [k |-> "fetchfail", st |-> s1.conn.st])

\* message.go:455-458, 497-500  the onFail handler of the retry around FETCH:
\* d.Close(), its error dropped.
FetchOnFail(s) == FetchClosed(Close(s).s)

\* message.go:459-461, 501-503  onRetry: d.Reconnect() has returned rr.
FetchReconnected(rr, a, mode, badAll, badBody, i) ==
    IF rr.r # "ok" THEN rr ELSE FetchLoop(rr.s, a, mode, badAll, badBody, i + 1)

\* retry.Retry after the handler: i failed attempts have been made.
FetchRetry(s1, a, mode, badAll, badBody, i) ==
    IF i >= RetryCount THEN Result(s1, "err")
    ELSE CHOOSE res \in { FetchReconnected(rr, a, mode, badAll, badBody, i) :
                            rr \in {Reconnect(s1, 0, 1)} } : TRUE

\* message.go:482-494, 342-349  what the reply to FETCH is parsed to: a
\* mailbox without messages has an empty reply, which GetOverviews does not
\* parse; bad says that the records of the mailbox do not parse.
ParseFails(s, bad) == bad /\ Exists(s.Folder) > 0

\* message.go:340-349  the records of the overviews are parsed: GetOverviews
\* returns them; GetEmails returns at once when there is no message, and
\* fetches the bodies otherwise.
FetchDone(s, a, mode, badAll, badBody) ==
    IF mode = "emails" /\ a = "ALL" /\ Exists(s.Folder) > 0
    THEN FetchLoop(s, "BODY.PEEK[]", mode, badAll, badBody, 0)
    ELSE Result(s, "ok")

\* message.go:367-376, 482-494  Exec has returned ex: ParseFetchResponse.
FetchParsed(ex, a, mode, badAll, badBody, i) ==
    IF ex.r = "hang" THEN ex
    ELSE IF ex.r = "ok" /\ ~ParseFails(ex.s, IF a = "ALL" THEN badAll ELSE badBody)
         THEN FetchDone(Emit(ex.s, [k |-> "parse", ok |-> TRUE]), a, mode, badAll, badBody)
         ELSE CHOOSE res \in
                { FetchRetry(s1, a, mode, badAll, badBody, i) :
                    s1 \in {FetchOnFail(IF ex.r = "ok"
                                        THEN Emit(ex.s, [k |-> "parse", ok |-> FALSE])
                                        ELSE ex.s)} } : TRUE

\* message.go:366-461, 481-503  retry.Retry around Exec of UID FETCH with no
\* retry of its own and ParseFetchResponse; a is "ALL" or "BODY.PEEK[]",
\* badAll and badBody say which of the two replies does not parse.
FetchLoop(s, a, mode, badAll, badBody, i) ==
    CHOOSE res \in { FetchParsed(ex, a, mode, badAll, badBody, i) :
                       ex \in {Exec(s, "FETCH", a, 0, "none", 0, 0)} } : TRUE

\* message.go:464  GetOverviews (mode "overviews"), and message.go:339
\* GetEmails (mode "emails"): GetOverviews, then the FETCH of the bodies.
FetchModes == {"overviews", "emails"}

FetchOp(mode) == IF mode = "emails" THEN "GetEmails" ELSE "GetOverviews"

Fetching(s, mode, badAll, badBody) == FetchLoop(s, "ALL", mode, badAll, badBody, 0)

FaultPlans ==
    { p \in [kill : {"none", "auth", "sel", "cmd"}, drops : 0..MaxDrops,
             dialFails : {0, 1, RetryCount + 1}, closeErr : BOOLEAN] :
        /\ (p.drops = 0) = (p.kill = "none")
        /\ p.closeErr => (p.drops > 0 \/ conn.st = "broken") }

Start(p, xo) ==
    [Folder |-> Folder, ReadOnly |-> ReadOnly, Connected |-> Connected,
     conn |-> conn, xo |-> xo, ev |-> <<>>, nx |-> 0, nf |-> 0, tag |-> 0,
     epoch |-> 0, kill |-> p.kill, drops |-> p.drops,
     dialFails |-> p.dialFails, closeErr |-> p.closeErr]

Snapshot ==
    [Folder |-> Folder, ReadOnly |-> ReadOnly, Connected |-> Connected,
     conn |-> conn, made |-> made]

NoPre == [Folder |-> "", ReadOnly |-> FALSE, Connected |-> FALSE,
          conn |-> NoConn, made |-> FALSE]

\* The call `op` with argument a ran to res: the Dialer holds what it left.
Commit(op, a, result) ==
    LET res == result IN
    /\ Folder' = res.s.Folder
    /\ ReadOnly' = res.s.ReadOnly
    /\ Connected' = res.s.Connected
    /\ conn' = res.s.conn
    /\ ev' = res.s.ev
    /\ call' = [op |-> op, a |-> a, r |-> res.r]
    /\ pre' = Snapshot
    /\ UNCHANGED <<RetryCount, srvFolders, pwGood, streamVars, idleVars>>

Idle0 == call = NoCall

DoNew(xo) ==
    /\ Idle0 /\ ~made
    /\ \E p \in FaultPlans :
         LET s0  == [Start(p, xo) EXCEPT !.Folder = "", !.ReadOnly = FALSE,
                                         !.Connected = FALSE, !.conn = NoConn]
             res == NewDialer(s0)
         IN /\ Commit(IF xo THEN "NewWithOAuth2" ELSE "New", "", res)
            /\ made' = (res.r = "ok")
            /\ useXOAUTH2' = xo

DoCall(op, a, res) ==
    /\ Commit(op, a, res)
    /\ UNCHANGED <<made, useXOAUTH2>>

DoReconnect ==
    /\ Idle0 /\ made
    /\ \E p \in FaultPlans :
         DoCall("Reconnect", "", Reconnect(Start(p, useXOAUTH2), 0, 1))

DoClose ==
    /\ Idle0 /\ made
    /\ \E p \in FaultPlans :
         /\ p.kill = "none" /\ p.dialFails = 0
         /\ DoCall("Close", "", Close(Start(p, useXOAUTH2)))

\* What the network does during a mutating call: it loses the replies to the
\* first `drops` commands of the call proper, or to the first `drops` EXAMINE.
MutateFaultPlans ==
    { p \in [kill : {"none", "cmd", "EXAMINE"}, drops : 0..MaxDrops,
             dialFails : {0}, closeErr : {FALSE}] :
        (p.drops = 0) = (p.kill = "none") }

DoSetFlags ==
    /\ Idle0 /\ made
    /\ \E p \in MutateFaultPlans :
         DoCall("SetFlags", "", SetFlags(Start(p, useXOAUTH2)))

DoExpunge ==
    /\ Idle0 /\ made
    /\ \E p \in MutateFaultPlans :
         DoCall("Expunge", "", Expunge(Start(p, useXOAUTH2)))

DoMoveEmail ==
    /\ Idle0 /\ made
    /\ \E p \in MutateFaultPlans, a \in Folders :
         DoCall("MoveEmail", a, MoveEmail(Start(p, useXOAUTH2), a))

\* What the network does during a call that walks the folders: it loses the
\* replies to the first `drops` EXAMINE and SELECT, or SELECT only, or UID
\* SEARCH.
StatsFaultPlans ==
    { p \in [kill : {"none", "sel", "SELECT", "cmd"}, drops : 0..MaxDrops,
             dialFails : {0}, closeErr : {FALSE}] :
        (p.drops = 0) = (p.kill = "none") }

\* The start folders a caller gives: none, or a mailbox.
StartFolders == {""} \cup Folders

DoGetFolderStats ==
    /\ Idle0 /\ made
    /\ \E p \in StatsFaultPlans, start \in StartFolders, excl \in SUBSET Folders :
         DoCall("GetFolderStats", start,
                FolderStats(Start(p, useXOAUTH2), start, excl, "stats"))

DoGetTotalEmailCount ==
    /\ Idle0 /\ made
    /\ \E p \in StatsFaultPlans, start \in StartFolders, excl \in SUBSET Folders :
         DoCall("GetTotalEmailCount", start,
                FolderStats(Start(p, useXOAUTH2), start, excl, "count"))

\* What the network does during a fetching call: it loses the replies to
\* the first `drops` FETCH.
FetchFaultPlans ==
    { p \in [kill : {"none", "cmd"}, drops : 0..MaxDrops,
             dialFails : {0, 1}, closeErr : {FALSE}] :
        (p.drops = 0) = (p.kill = "none") }

\* GetOverviews or GetEmails is called.
DoFetching ==
    /\ Idle0 /\ made
    /\ \E p \in FetchFaultPlans, mode \in FetchModes,
          badAll \in BOOLEAN, badBody \in BOOLEAN :
         /\ mode = "overviews" => ~badBody
         /\ DoCall(FetchOp(mode), "", Fetching(Start(p, useXOAUTH2), mode, badAll, badBody))

DoExamineFolder ==
    /\ Idle0 /\ made
    /\ \E p \in FaultPlans, a \in Folders :
         DoCall("ExamineFolder", a, ExamineFolder(Start(p, useXOAUTH2), a, 0, 0))

DoSelectFolder ==
    /\ Idle0 /\ made
    /\ \E p \in FaultPlans, a \in Folders :
         DoCall("SelectFolder", a, SelectFolder(Start(p, useXOAUTH2), a, 0, 0))

DoGetUIDs ==
    /\ Idle0 /\ made
    /\ \E p \in FaultPlans :
         DoCall("GetUIDs", "", GetUIDs(Start(p, useXOAUTH2)))

DoGetFolders ==
    /\ Idle0 /\ made
    /\ \E p \in FaultPlans :
         DoCall("GetFolders", "", GetFolders(Start(p, useXOAUTH2)))

\* The call returns to its caller; a call that hangs never does.
Return ==
    /\ call # NoCall /\ call.r # "hang"
    /\ call' = NoCall /\ pre' = NoPre /\ ev' = <<>>
    /\ UNCHANGED <<made, Folder, ReadOnly, Connected, useXOAUTH2, conn,
                   RetryCount, srvFolders, pwGood, streamVars, idleVars>>

\* The peer or the network breaks the stream between two calls.
ConnLost ==
    /\ Idle0 /\ conn.st = "open"
    /\ conn' = [conn EXCEPT !.st = "broken"]
    /\ UNCHANGED <<made, Folder, ReadOnly, Connected, useXOAUTH2, RetryCount,
                   srvFolders, pwGood, call, pre, ev, streamVars, idleVars>>

\* A mailbox is deleted or created on the server.
FolderChange ==
    /\ Idle0
    /\ \E a \in Volatile :
         srvFolders' = IF a \in srvFolders THEN srvFolders \ {a}
                                           ELSE srvFolders \cup {a}
    /\ UNCHANGED <<made, Folder, ReadOnly, Connected, useXOAUTH2, conn,
                   RetryCount, pwGood, call, pre, ev, streamVars, idleVars>>

\* The password the Dialer holds stops or starts being the server's.
PasswordChange ==
    /\ Idle0
    /\ pwGood' = ~pwGood
    /\ UNCHANGED <<made, Folder, ReadOnly, Connected, useXOAUTH2, conn,
                   RetryCount, srvFolders, call, pre, ev, streamVars, idleVars>>

---------------------------------------------------------------------------
(* The values of the variables a specification does not use *)

NoOut == [res |-> "none", used |-> 0, term |-> 0, starts |-> <<>>]

\* vars.go:35  the package's lastResp is the empty string: no buffer, length 0.
NoResp == [ptr |-> <<0, 0>>, len |-> 0]

MaxDialers == 2

Dialers == 1..MaxDialers

MaxNewCallers == 3

MaxConnNum == 3

\* The goroutines that call New and NewWithOAuth2.
NewCallers == 1..MaxNewCallers

\* No Dialer is in the last lines of Exec.
NoExec == [pc |-> "idle", c |-> 0, todo |-> {}, ret |-> NoResp]

\* No caller is in New or NewWithOAuth2.
NoNew == [pc |-> "idle", xo |-> FALSE, connNum |-> 0]

NoShared ==
    /\ lastResp = NoResp /\ execs = [i \in Dialers |-> NoExec]
    /\ nextConnNum = 0 /\ news = [i \in NewCallers |-> NoNew]

NoOutput == [fn |-> "none"]

\* No function is being applied.
NoPure == input = <<>> /\ output = NoOutput

NoRead ==
    /\ rdStream = <<>> /\ rdTag = 0 /\ rdCb = "none" /\ rdOut = NoOut
    /\ NoShared
    /\ NoPure

\* part_006:42-49
StateDisconnected == 0
StateConnected == 1
StateSelected == 2
StateIdlePending == 3
StateIdling == 4
StateStoppingIdle == 5

\* The IDLE sessions that startIdleSingle may begin, and the event lines the
\* server may send.
MaxSessions == 3
MaxIdleSessions == 2
MaxEvents == 2

Sessions == 1..MaxSessions

Callers == {"user", "sup"}

\* err is what Exec has returned to the task (part_006:173).
NoTask == [pc |-> "none", e |-> 0, tick |-> FALSE, err |-> "nil"]

NoSup == [pc |-> "none", k |-> 0, done |-> 0, tick |-> FALSE]

NoStop == [pc |-> "none", w |-> 0]

NoSrvIdle == [tag |-> 0, plus |-> FALSE]

NoHandler == [OnExists |-> FALSE, OnExpunge |-> FALSE, OnFetch |-> FALSE]

NoIdle ==
    /\ state = StateDisconnected
    /\ idleStop = 0 /\ idleDone = 0
    /\ closedStop = {} /\ closedDone = {} /\ closedReady = {}
    /\ nsess = 0
    /\ task = [k \in Sessions |-> NoTask]
    /\ sup = NoSup
    /\ stop = [c \in Callers |-> NoStop]
    /\ handler = NoHandler
    /\ wire = <<>> /\ srvIdle = NoSrvIdle /\ cepoch = 0
    /\ sent = <<>> /\ taken = <<>> /\ dispatched = <<>>
    /\ panicked = FALSE

\* No Dialer has been made yet.
NoDialer ==
    /\ made = FALSE
    /\ Folder = "" /\ ReadOnly = FALSE /\ Connected = FALSE
    /\ useXOAUTH2 = FALSE
    /\ conn = NoConn
    /\ srvFolders = Folders
    /\ pwGood = TRUE
    /\ call = NoCall /\ pre = NoPre /\ ev = <<>>

Init ==
    /\ NoDialer
    /\ RetryCount \in 0..MaxRetry
    /\ NoRead
    /\ NoIdle

Next ==
    \/ \E xo \in BOOLEAN : DoNew(xo)
    \/ DoReconnect
    \/ DoClose
    \/ DoExamineFolder
    \/ DoSelectFolder
    \/ DoGetUIDs
    \/ DoGetFolders
    \/ Return
    \/ ConnLost
    \/ FolderChange
    \/ PasswordChange

---------------------------------------------------------------------------
(* Reading the events of a call *)

IsCmd(i) == ev[i].k = "cmd"

\* The server has observed the command of event i.
Seen(i) == IsCmd(i) /\ ev[i].res # "WERR"

\* The attempt of event i ended in a stream failure.
IOFailed(i) == IsCmd(i) /\ ev[i].res \in {"WERR", "LOST"}

\* Event i is a write of the public call's own command (its Exec is the first).
IsTop(i) == IsCmd(i) /\ ev[i].x = 1 /\ ev[i].f = 0

WritesOf(x) == { i \in DOMAIN ev : IsCmd(i) /\ ev[i].x = x }

Returned == call # NoCall /\ call.r # "hang"

Spec == Init /\ [][Next]_vars

---------------------------------------------------------------------------
(* One attempt of Exec over every short stream *)

MaxLines == 4

\* The attempt wrote tag 1; tag 2 is the tag of some other command.
OwnOK == Terminator(1, "OK")

ForeignOK == Terminator(2, "OK")

StreamLines ==
    { Untagged, [Untagged EXCEPT !.lit = TRUE],
      ForeignOK, [ForeignOK EXCEPT !.lit = TRUE],
      OwnOK, Terminator(1, "NO"),
      Line(1, "", FALSE, TRUE, FALSE) }

\* The streams of at most MaxLines elements; one that ends in the middle of
\* a line has a last element without its newline.
Streams ==
    LET whole == UNION { [1..n -> StreamLines] : n \in 0..MaxLines }
    IN whole \cup { [s EXCEPT ![Len(s)].nl = FALSE] : s \in whole \ {<<>>} }

InitStream ==
    /\ NoDialer /\ RetryCount = 0
    /\ NoIdle
    /\ rdStream \in Streams
    /\ rdTag = 1
    /\ rdCb \in {"none", "list"}
    /\ rdOut = NoOut
    /\ NoShared
    /\ NoPure

\* exec.go:179-238  the attempt reads until its loop ends.
ExecRead ==
    /\ rdOut = NoOut
    /\ rdOut' = ReadLoop(rdStream, 1, rdTag, rdCb)
    /\ UNCHANGED <<seqVars, idleVars, connVars, rdStream, rdTag, rdCb, lastResp, execs, pureVars>>

NextStream == ExecRead

SpecStream == InitStream /\ [][NextStream]_vars

\* The line of the stream that begins at element i.
TaggedLine(i) == rdStream[i].tag = rdTag /\ rdStream[i].long

\* C5: an attempt that succeeds has consumed exactly one line that starts
\* with the tag it wrote (and is long enough to hold a status word): the last
\* line it read, which says OK; and a command ended by a line, successfully or
\* not, is ended by a line that starts with that tag.
C5_OneTerminatorOwnTag ==
    rdOut # NoOut =>
      /\ rdOut.res \in {"ok", "failed"} => rdOut.term # 0
      /\ rdOut.term # 0 =>
           /\ TaggedLine(rdOut.term)
           /\ rdOut.starts[Len(rdOut.starts)] = rdOut.term
           /\ rdOut.used = Absorb(rdStream, rdOut.term)
      /\ rdOut.res = "ok" =>
           /\ rdStream[rdOut.term].word = "OK"
           /\ \A j \in 1..Len(rdOut.starts) - 1 : ~TaggedLine(rdOut.starts[j])
           /\ Cardinality({ j \in 1..Len(rdOut.starts) :
                              TaggedLine(rdOut.starts[j]) }) = 1

\* C5's case: a successful attempt that has read a line with another
\* command's tag and OK, and a literal whose bytes spell its own tag and OK,
\* before its terminator.
C5_Witness ==
    /\ rdOut.res = "ok"
    /\ \E j \in 1..Len(rdOut.starts) - 1 :
         rdStream[rdOut.starts[j]] = [ForeignOK EXCEPT !.lit = TRUE]
    /\ \E i \in 1..rdOut.term - 1 :
         /\ rdStream[i] = OwnOK
         /\ \A j \in 1..Len(rdOut.starts) : rdOut.starts[j] # i

---------------------------------------------------------------------------
(* The wire engine and the connection lifecycle: claims *)

AuthEvents == { i \in DOMAIN ev : IsCmd(i) /\ ev[i].c \in AuthCmds }

RetryableOps == {"GetUIDs", "GetFolders", "ExamineFolder", "SelectFolder"}

AuthCmd == IF useXOAUTH2 THEN "AUTHENTICATE" ELSE "LOGIN"

RestoreCmd == IF pre.ReadOnly THEN "EXAMINE" ELSE "SELECT"

\* What the server has observed on connection e before event i, in order.
SeenBefore(i, e) ==
    SelectSeq(SubSeq(ev, 1, i - 1),
              LAMBDA v : v.k = "cmd" /\ v.res # "WERR" /\ v.e = e)

SeenAll == SelectSeq(ev, LAMBDA v : v.k = "cmd" /\ v.res # "WERR")

NoFaultInCall ==
    \A i \in DOMAIN ev : /\ ev[i].k = "cmd" => ev[i].res # "LOST"
                         /\ ev[i].k = "dial" => ev[i].ok

\* C2: with folder f recorded by a successful ExamineFolder (SelectFolder), a
\* retryable command that the server observes on a new connection is preceded
\* there by one accepted authentication command and then by EXAMINE f (SELECT
\* f), accepted, and by nothing else but repetitions of that EXAMINE f (SELECT
\* f); and when the stream was lost before the call and nothing else fails,
\* the server observes exactly the authentication, EXAMINE f (SELECT f) and
\* the command, and the call succeeds.
C2_RestoreBeforeResend ==
    (call.op \in RetryableOps /\ pre.Folder # "") =>
      /\ \A i \in DOMAIN ev :
           (IsTop(i) /\ Seen(i) /\ ev[i].e >= 1) =>
             LET P == SeenBefore(i, ev[i].e) IN
             /\ Len(P) >= 2
             /\ P[1].c = AuthCmd /\ P[1].res = "OK"
             /\ \A j \in 2..Len(P) : P[j].c = RestoreCmd /\ P[j].a = pre.Folder
             /\ P[Len(P)].res = "OK"
      /\ ( /\ call.op \in {"GetUIDs", "GetFolders"}
           /\ pre.conn.st \in {"broken", "closed"}
           /\ RetryCount >= 1 /\ pwGood /\ pre.Folder \in srvFolders
           /\ NoFaultInCall ) =>
             /\ call.r = "ok"
             /\ Len(SeenAll) = 3
             /\ SeenAll[1].c = AuthCmd
             /\ SeenAll[2].c = RestoreCmd /\ SeenAll[2].a = pre.Folder
             /\ IsTop(Len(ev) - 1) /\ SeenAll[3] = ev[Len(ev) - 1]

\* C2's case: after ExamineFolder the stream is lost, and the next GetUIDs
\* succeeds on a new connection.
C2_Witness ==
    /\ call.op = "GetUIDs" /\ call.r = "ok"
    /\ pre.Folder # "" /\ pre.ReadOnly /\ pre.conn.st = "broken"
    /\ \E i \in DOMAIN ev : IsTop(i) /\ Seen(i) /\ ev[i].e >= 1

\* C3: a tagged NO or BAD is not retried: the Exec that received it has
\* written its command exactly once.  (Violated: Exec retries every failure.)
C3_NoRetryOnNoBad ==
    \A i \in DOMAIN ev :
      (IsCmd(i) /\ ev[i].res \in {"NO", "BAD"}) => WritesOf(ev[i].x) = {i}

C6_ReconnectErrorDisconnects ==
    (call.op = "Reconnect" /\ call.r = "err") => ~Connected

\* ---------------------------------------------------------------------
\* The mutating calls

NextMutate ==
    \/ DoNew(FALSE)
    \/ DoExamineFolder
    \/ DoSelectFolder
    \/ DoSetFlags
    \/ DoExpunge
    \/ DoMoveEmail
    \/ Return
    \/ ConnLost

SpecMutate == Init /\ [][NextMutate]_vars

MutatingOps == {"SetFlags", "Expunge", "MoveEmail"}

\* C17: a mutating call on a read-only session that returns nil has shown
\* the server SELECT of the current folder, then the mutating command, then
\* EXAMINE of the same folder, and leaves the session read-only.
C17_ReadOnlyAgain ==
    ( /\ call.op \in MutatingOps /\ call.r = "ok"
      /\ pre.ReadOnly /\ pre.Folder # "" ) =>
        /\ ReadOnly
        /\ \E i \in DOMAIN ev :
             /\ Seen(i) /\ ev[i].c = "SELECT" /\ ev[i].a = pre.Folder
             /\ \E j \in DOMAIN ev :
                  /\ i < j /\ Seen(j) /\ ev[j].c \in MutatingCmds
                  /\ \E k \in DOMAIN ev :
                       /\ j < k /\ Seen(k)
                       /\ ev[k].c = "EXAMINE" /\ ev[k].a = pre.Folder

\* C18: when a public call has returned nil with d.Folder set and the
\* session connected on an open stream, the mailbox selected on the server
\* is d.Folder, read-only exactly when d.ReadOnly.
C18_SelectionMatchesFolder ==
    ( /\ call.r = "ok" /\ Folder # ""
      /\ Connected /\ conn.st = "open" ) =>
        /\ conn.sel = Folder
        /\ conn.ro = ReadOnly

\* ---------------------------------------------------------------------
\* The calls that walk the folders

NextStats ==
    \/ DoNew(FALSE)
    \/ DoExamineFolder
    \/ DoSelectFolder
    \/ DoGetFolderStats
    \/ DoGetTotalEmailCount
    \/ Return
    \/ ConnLost
    \/ FolderChange

SpecStats == Init /\ [][NextStats]_vars

\* The entries of the result, in order.
StatEntries == SelectSeq(ev, LAMBDA v : v.k = "stat")

\* The folders of list from the first occurrence of start onward (all of
\* them when start is empty) that are not in excl.
Expected(list, start, excl) ==
    LET at == { i \in DOMAIN list : list[i] = start }
        from == IF start = "" THEN 1
                ELSE IF at = {} THEN Len(list) + 1
                ELSE CHOOSE i \in at : \A j \in at : i <= j
    IN SelectSeq(SubSeq(list, from, Len(list)), LAMBDA f : f \notin excl)

\* The Exec calls by which the call itself examined or selected a folder.
TopSelects == { ev[j].x : j \in { i \in DOMAIN ev : /\ IsCmd(i) /\ ev[i].f = 0
                                                    /\ ev[i].c \in SelectCmds } }

\* Between the entry before event i and event i, an EXAMINE or SELECT of
\* the call itself returned an error.
SelectFailedBefore(i) ==
    \E j \in 1..(i - 1) :
       /\ ev[j].k = "xret" /\ ev[j].r = "err" /\ ev[j].x \in TopSelects
       /\ \A m \in (j + 1)..(i - 1) : ev[m].k # "stat"

C22_FolderAndModeRestored ==
    ( /\ call.op \in {"GetFolderStats", "GetTotalEmailCount"}
      /\ call.r # "hang" ) =>
        /\ Folder = pre.Folder
        /\ ReadOnly = pre.ReadOnly

\* ---------------------------------------------------------------------
\* The fetching calls

NextEmails ==
    \/ DoNew(FALSE)
    \/ DoExamineFolder
    \/ DoSelectFolder
    \/ DoFetching
    \/ Return
    \/ ConnLost

SpecEmails == Init /\ [][NextEmails]_vars

\* The events of the call after its event i.
After(i) == { j \in DOMAIN ev : j > i }

\* C27: when the reply to a FETCH of GetOverviews or GetEmails does not
\* parse, the call returns the error and, after the parse error, the stream
\* is not closed, Reconnect is not called and no FETCH is sent.
C27_ParseErrorNotRetried ==
    ( /\ call.op \in {"GetOverviews", "GetEmails"} /\ call.r # "hang" ) =>
        \A i \in DOMAIN ev :
           (ev[i].k = "parse" /\ ~ev[i].ok) =>
               /\ call.r = "err"
               /\ \A j \in After(i) :
                    /\ ev[j].k # "reconn"
                    /\ ev[j].k = "cmd" => ev[j].c # "FETCH"
                    /\ ev[j].k = "fetchfail" => ev[j].st = "open"

\* C16: Connected is false after any Close has returned, whatever Close
\* returned.  (Violated: conn.go:219-221 returns the error of conn.Close()
\* before Connected is cleared, and every later Close closes the stream
\* again and fails again.)
C16_CloseMarksDisconnected ==
    (call.op = "Close" /\ call.r # "none") => ~Connected

---------------------------------------------------------------------------
(* The IDLE subsystem: goroutines in small steps *)

\* The variables the IDLE subsystem never changes.
fixedVars == <<made, useXOAUTH2, RetryCount, srvFolders, pwGood, call, pre, ev,
               streamVars>>

chanVars == <<idleStop, idleDone, closedStop, closedDone, closedReady>>

logVars == <<sent, taken, dispatched>>

Continuation == [Untagged EXCEPT !.pfx = "+"]

EventLine(n, e) == [Untagged EXCEPT !.pfx = "*", !.n = n, !.evt = e]

ByeLine == [Untagged EXCEPT !.pfx = "*", !.evt = "BYE"]

EventWords == {"EXISTS", "EXPUNGE"}

IsEvent(line) == line.pfx = "*" /\ line.evt \in EventWords

\* part_006:83-118  runIdleEvent: the handler calls it starts for a line, in
\* order (`go handler.OnExists(...)`, `go handler.OnExpunge(...)`).
runIdleEventAlt(line, h) ==
    CASE line.evt = "EXISTS"  -> <<[evt |-> "Exists", n |-> line.n]>>
      [] line.evt = "EXPUNGE" -> <<[evt |-> "Expunge", n |-> line.n]>>
      [] OTHER -> <<>>

runIdleEvent(line, h) ==
    CASE line.evt = "EXISTS" ->
           IF h.OnExists THEN <<[evt |-> "Exists", n |-> line.n]>> ELSE <<>>
      [] line.evt = "EXPUNGE" ->
           IF h.OnExpunge THEN <<[evt |-> "Expunge", n |-> line.n]>> ELSE <<>>
      [] line.evt = "FETCH" -> FetchDispatch(ToUpper(line.txt), h)
      [] OTHER -> <<>>

\* A dispatch that calls the handler function on the task itself: a function
\* that does not return keeps the task.
GoHandlerAlt(evs) == IF evs = <<>> THEN "read" ELSE "handler"

\* part_006:92,96,111  `go handler.OnExists(...)`: each handler function runs
\* as a goroutine of its own and the task goes on reading at once, whether
\* the function returns or not.  The position of the task after dispatching
\* evs; no handler function of the model ever returns.
GoHandler(evs) == "read"

Alive == ~panicked

\* The tasks whose IDLE command has not returned from Exec and that have not
\* closed the exit signal.
Running == { k \in Sessions : task[k].pc \in {"start", "read", "spin", "defer"} }

\* d.Close() as a goroutine of the IDLE subsystem calls it, once or twice.
IdleClose(ce, twice) ==
    LET s0 == [Connected |-> Connected, conn |-> conn, closeErr |-> ce]
        s1 == Close(s0).s
    IN IF twice THEN Close(s1).s ELSE s1

\* The IDLE command of task k ends with an error: the callback has closed
\* the Dialer or not (bye), Exec's onFail closes it, Exec returns the error
\* (budget 0) and the task sets StateDisconnected (part_006:201-206).  w is
\* what is left on the wire.
TaskFails(k, ce, bye, w) ==
    LET cl == IdleClose(ce, bye) IN
    /\ Connected' = cl.Connected
    /\ conn' = cl.conn
    /\ state' = StateDisconnected
    /\ task' = [task EXCEPT ![k].pc = "defer",
                            ![k].err = IF bye THEN "bye" ELSE "io"]
    /\ wire' = IF cl.conn.st = "open" THEN w ELSE <<>>
    /\ srvIdle' = IF cl.conn.st = "open" THEN srvIdle ELSE NoSrvIdle
    /\ UNCHANGED <<Folder, ReadOnly>>

\* part_006:174 and exec.go:154-171  task k writes its IDLE command.  The
\* server answers an IDLE with "+" later (ServerContinues), unless it is
\* already serving one or the session is not authenticated.
TaskWrite(k) ==
    /\ Alive /\ task[k].pc = "start"
    /\ IF conn.st # "open"
       THEN /\ \E ce \in BOOLEAN :
                 /\ ce => conn.st = "broken"
                 /\ TaskFails(k, ce, FALSE, wire)
            /\ UNCHANGED cepoch
       ELSE /\ task' = [task EXCEPT ![k].pc = "read", ![k].e = cepoch]
            /\ IF conn.auth /\ srvIdle.tag = 0
               THEN srvIdle' = [tag |-> k, plus |-> FALSE] /\ wire' = wire
               ELSE srvIdle' = srvIdle /\ wire' = Append(wire, Terminator(k, "BAD"))
            /\ UNCHANGED <<Folder, ReadOnly, Connected, conn, state, cepoch>>
    /\ UNCHANGED <<fixedVars, chanVars, logVars, nsess, sup, stop, handler, panicked>>

\* exec.go:179-237 with the callback of part_006:174-200  task k reads one
\* line and handles it.
TaskRead(k) ==
    /\ Alive /\ task[k].pc = "read"
    /\ IF task[k].e # cepoch \/ conn.st # "open"
       THEN \* the read fails
            /\ IF ReadLoop(<<>>, 1, k, "idle").res = "spin"
               THEN /\ task' = [task EXCEPT ![k].pc = "spin"]
                    /\ UNCHANGED <<Folder, ReadOnly, Connected, conn, state,
                                   wire, srvIdle>>
               ELSE \E ce \in BOOLEAN :
                      /\ ce => conn.st = "broken"
                      /\ TaskFails(k, ce, FALSE, wire)
            /\ UNCHANGED <<closedReady, taken, dispatched, panicked>>
       ELSE /\ wire # <<>>
            /\ LET line == Head(wire)
                   rest == Tail(wire)
               IN IF IsTerminator(line, k)
                  THEN /\ IF IsOK(line)
                          THEN /\ task' = [task EXCEPT ![k].pc = "defer"]
                               /\ wire' = rest
                               /\ UNCHANGED <<Folder, ReadOnly, Connected, conn,
                                              state, srvIdle>>
                          ELSE TaskFails(k, FALSE, FALSE, rest)
                       /\ UNCHANGED <<closedReady, taken, dispatched, panicked>>
                  ELSE IF IdleLine(line, handler) # "nil"
                  THEN \* "* BYE": StateDisconnected, d.Close(), an error;
                       \* an invalid FETCH: an error
                       /\ TaskFails(k, FALSE, line.evt = "BYE", rest)
                       /\ UNCHANGED <<closedReady, taken, dispatched, panicked>>
                  ELSE IF line.pfx = "+"
                  THEN \* setState(StateIdling); close(idleReady)
                       /\ wire' = rest
                       /\ state' = StateIdling
                       /\ IF k \in closedReady
                          THEN panicked' = TRUE /\ UNCHANGED closedReady
                          ELSE closedReady' = closedReady \cup {k} /\ UNCHANGED panicked
                       /\ UNCHANGED <<Folder, ReadOnly, Connected, conn, task,
                                      srvIdle, taken, dispatched>>
                  ELSE /\ wire' = rest
                       /\ taken' = IF IsEvent(line) THEN Append(taken, line) ELSE taken
                       /\ dispatched' = IF line.pfx = "*" /\ line.evt # "OK"
                                        THEN dispatched \o runIdleEvent(line, handler)
                                        ELSE dispatched
                       /\ task' = [task EXCEPT ![k].pc =
                                     GoHandler(IF line.pfx = "*" /\ line.evt # "OK"
                                               THEN runIdleEvent(line, handler)
                                               ELSE <<>>)]
                       /\ UNCHANGED <<Folder, ReadOnly, Connected, conn,
                                      state, srvIdle, closedReady, panicked>>
    /\ UNCHANGED <<fixedVars, idleStop, idleDone, closedStop, closedDone,
                   sent, nsess, sup, stop, handler, cepoch>>

\* part_006:167-169  the deferred function of task k closes d.idleStop, the
\* channel the field holds now.
TaskDefer(k) ==
    /\ Alive /\ task[k].pc = "defer"
    /\ IF idleStop = 0 \/ idleStop \in closedStop
       THEN panicked' = TRUE /\ UNCHANGED <<closedStop, task>>
       ELSE /\ closedStop' = closedStop \cup {idleStop}
            /\ task' = [task EXCEPT ![k].pc = "defer2"]
            /\ UNCHANGED panicked
    /\ UNCHANGED <<fixedVars, Folder, ReadOnly, Connected, conn, state,
                   idleStop, idleDone, closedDone, closedReady, logVars, nsess,
                   sup, stop, handler, wire, srvIdle, cepoch>>

\* A deferred function that sets StateSelected whatever the state is.
TaskExitAlt(k) ==
    /\ Alive /\ task[k].pc = "defer2"
    /\ state' = StateSelected
    /\ task' = [task EXCEPT ![k].pc = "end"]
    /\ UNCHANGED <<fixedVars, Folder, ReadOnly, Connected, conn, chanVars,
                   logVars, nsess, sup, stop, handler, wire, srvIdle, cepoch, panicked>>

\* part_006:169-171  and then leaves StateIdling, if that is the state.
TaskExit(k) ==
    /\ Alive /\ task[k].pc = "defer2"
    /\ state' = IF state = StateIdling THEN StateSelected ELSE state
    /\ task' = [task EXCEPT ![k].pc = "end"]
    /\ UNCHANGED <<fixedVars, Folder, ReadOnly, Connected, conn, chanVars,
                   logVars, nsess, sup, stop, handler, wire, srvIdle, cepoch, panicked>>

\* The supervisor goes back to the head of its loop after its StopIdle.
SupResumes(c) ==
    sup' = IF c = "sup" THEN [sup EXCEPT !.pc = "top", !.tick = TRUE] ELSE sup

\* part_006:219-222  StopIdle begins: it returns an error unless the state is
\* StateIdling.
StopIdleBeginAlt(c) ==
    /\ stop' = [stop EXCEPT ![c].pc = "write"]
    /\ IF c = "sup" THEN sup' = [sup EXCEPT !.pc = "stopping"] ELSE sup' = sup

StopIdleBegin(c) ==
    IF state # StateIdling
    THEN /\ stop' = [stop EXCEPT ![c] = NoStop]
         /\ SupResumes(c)
    ELSE /\ stop' = [stop EXCEPT ![c].pc = "write"]
         /\ IF c = "sup" THEN sup' = [sup EXCEPT !.pc = "stopping"] ELSE sup' = sup

\* part_006:227-234  StopIdle writes DONE, sets StateStoppingIdle, closes
\* d.idleDone and begins to wait on the channel d.idleStop holds.  A server
\* that serves an IDLE answers DONE with the tagged OK of that IDLE; any other
\* answers with a line that no command waits for.
StopWrite(c) ==
    /\ Alive /\ stop[c].pc = "write"
    /\ IF conn.st # "open"
       THEN /\ stop' = [stop EXCEPT ![c] = NoStop]
            /\ SupResumes(c)
            /\ UNCHANGED <<state, wire, srvIdle, closedDone, panicked>>
       ELSE /\ wire' = IF srvIdle.tag # 0
                       THEN Append(wire, Terminator(srvIdle.tag, "OK"))
                       ELSE Append(wire, Untagged)
            /\ srvIdle' = NoSrvIdle
            /\ state' = StateStoppingIdle
            /\ IF idleDone = 0 \/ idleDone \in closedDone
               THEN panicked' = TRUE /\ UNCHANGED <<closedDone, stop>>
               ELSE /\ closedDone' = closedDone \cup {idleDone}
                    /\ stop' = [stop EXCEPT ![c].pc = "wait", ![c].w = idleStop]
                    /\ UNCHANGED panicked
            /\ UNCHANGED sup
    /\ UNCHANGED <<fixedVars, Folder, ReadOnly, Connected, conn, idleStop,
                   idleDone, closedStop, closedReady, logVars, nsess, task,
                   handler, cepoch>>

\* part_006:234-240  the channel is closed: StopIdle clears both fields,
\* leaves StateStoppingIdle and returns nil.
StopWait(c) ==
    /\ Alive /\ stop[c].pc = "wait" /\ stop[c].w \in closedStop
    /\ idleDone' = 0 /\ idleStop' = 0
    /\ state' = IF state = StateStoppingIdle THEN StateSelected ELSE state
    /\ stop' = [stop EXCEPT ![c] = NoStop]
    /\ SupResumes(c)
    /\ UNCHANGED <<fixedVars, Folder, ReadOnly, Connected, conn, closedStop,
                   closedDone, closedReady, logVars, nsess, task, handler,
                   wire, srvIdle, cepoch, panicked>>

\* part_006:121-152  StartIdle starts the supervisor and returns nil.  The
\* model follows the Dialer through `limit` IDLE sessions.
StartIdle(limit) ==
    /\ Alive /\ sup.pc \in {"none", "end"} /\ stop["user"].pc = "none"
    /\ nsess < limit
    /\ sup' = [NoSup EXCEPT !.pc = "top"]
    /\ UNCHANGED <<fixedVars, Folder, ReadOnly, Connected, conn, state, chanVars,
                   logVars, nsess, task, stop, handler, wire, srvIdle, cepoch,
                   panicked>>

\* The user calls StopIdle.
StopIdle ==
    /\ Alive /\ stop["user"].pc = "none"
    /\ StopIdleBegin("user")
    /\ UNCHANGED <<fixedVars, Folder, ReadOnly, Connected, conn, state, chanVars,
                   logVars, nsess, task, handler, wire, srvIdle, cepoch, panicked>>

\* What the supervisor's call of Reconnect leaves behind.
Reconnected(result) ==
    LET res == result IN
    /\ Folder' = res.s.Folder
    /\ ReadOnly' = res.s.ReadOnly
    /\ Connected' = res.s.Connected
    /\ conn' = res.s.conn
    /\ cepoch' = cepoch + res.s.epoch
    /\ sup' = [sup EXCEPT !.pc = CASE res.r = "ok" -> "single"
                                    [] res.r = "hang" -> "hung"
                                    [] OTHER -> "end"]

\* part_006:127-134  the supervisor finds the Dialer not connected and calls
\* Reconnect; it ends when Reconnect fails.
SupReconnect ==
    /\ Alive /\ sup.pc = "top" /\ ~Connected
    /\ \E p \in FaultPlans :
         /\ p.kill = "none"
         /\ Reconnected(Reconnect(Start(p, useXOAUTH2), 0, 1))
    /\ wire' = <<>> /\ srvIdle' = NoSrvIdle
    /\ UNCHANGED <<fixedVars, state, chanVars, logVars, nsess, task, stop,
                   handler, panicked>>

\* part_006:155-207  startIdleSingle up to the start of the IDLE task.
startIdleSingle(limit) ==
    /\ Alive
    /\ sup.pc = "single" \/ (sup.pc = "top" /\ Connected)
    /\ IF state \in {StateIdling, StateIdlePending}
       THEN /\ sup' = [sup EXCEPT !.pc = "end"]
            /\ UNCHANGED <<state, idleStop, idleDone, nsess, task>>
       ELSE /\ nsess < limit
            /\ LET k == nsess + 1 IN
               /\ state' = StateIdlePending
               /\ idleStop' = k /\ idleDone' = k
               /\ nsess' = k
               /\ task' = [task EXCEPT ![k] = [pc |-> "start", e |-> 0,
                                               tick |-> sup.tick,
                                               err |-> "nil"]]
               /\ sup' = [sup EXCEPT !.pc = "ready", !.k = k]
    /\ UNCHANGED <<fixedVars, Folder, ReadOnly, Connected, conn, closedStop,
                   closedDone, closedReady, logVars, stop, handler, wire,
                   srvIdle, cepoch, panicked>>

\* part_006:209-211 and 142-147  idleReady is closed: startIdleSingle returns
\* nil and the supervisor enters its select, on the channel d.idleDone holds.
SupReady ==
    /\ Alive /\ sup.pc = "ready" /\ sup.k \in closedReady
    /\ sup' = [sup EXCEPT !.pc = "select", !.done = idleDone]
    /\ UNCHANGED <<fixedVars, Folder, ReadOnly, Connected, conn, state, chanVars,
                   logVars, nsess, task, stop, handler, wire, srvIdle, cepoch, panicked>>

\* part_006:212-214  five seconds pass first: StateSelected, an error, and the
\* supervisor ends.
SupTimeout ==
    /\ Alive /\ sup.pc = "ready" /\ sup.k \notin closedReady
    /\ state' = StateSelected
    /\ sup' = [sup EXCEPT !.pc = "end"]
    /\ UNCHANGED <<fixedVars, Folder, ReadOnly, Connected, conn, chanVars,
                   logVars, nsess, task, stop, handler, wire, srvIdle, cepoch, panicked>>

\* part_006:143-144  the ticker fires: the supervisor calls StopIdle.
SupTick ==
    /\ Alive /\ sup.pc = "select" /\ stop["sup"].pc = "none"
    /\ StopIdleBegin("sup")
    /\ UNCHANGED <<fixedVars, Folder, ReadOnly, Connected, conn, state, chanVars,
                   logVars, nsess, task, handler, wire, srvIdle, cepoch, panicked>>

\* part_006:145-146  d.idleDone is closed: the supervisor ends.
SupDone ==
    /\ Alive /\ sup.pc = "select" /\ sup.done \in closedDone
    /\ sup' = [sup EXCEPT !.pc = "end"]
    /\ UNCHANGED <<fixedVars, Folder, ReadOnly, Connected, conn, state, chanVars,
                   logVars, nsess, task, stop, handler, wire, srvIdle, cepoch, panicked>>

\* The server answers the IDLE it serves with a continuation line.
ServerContinues ==
    /\ Alive /\ conn.st = "open" /\ srvIdle.tag # 0 /\ ~srvIdle.plus
    /\ wire' = Append(wire, Continuation)
    /\ srvIdle' = [srvIdle EXCEPT !.plus = TRUE]
    /\ UNCHANGED <<fixedVars, Folder, ReadOnly, Connected, conn, state, chanVars,
                   logVars, nsess, task, sup, stop, handler, cepoch, panicked>>

\* The mailbox changes: the server sends `* n EXISTS` or `* n EXPUNGE`.
ServerEvent ==
    /\ Alive /\ conn.st = "open" /\ srvIdle.tag # 0 /\ srvIdle.plus
    /\ Len(sent) < MaxEvents
    /\ \E e \in EventWords :
         LET line == EventLine(Len(sent) + 1, e) IN
         /\ wire' = Append(wire, line)
         /\ sent' = Append(sent, line)
    /\ UNCHANGED <<fixedVars, Folder, ReadOnly, Connected, conn, state, chanVars,
                   taken, dispatched, nsess, task, sup, stop, handler,
                   srvIdle, cepoch, panicked>>

\* The server ends the session with `* BYE`.
ServerBye ==
    /\ Alive /\ conn.st = "open" /\ srvIdle.tag # 0 /\ srvIdle.plus
    /\ wire' = Append(wire, ByeLine)
    /\ srvIdle' = NoSrvIdle
    /\ UNCHANGED <<fixedVars, Folder, ReadOnly, Connected, conn, state, chanVars,
                   logVars, nsess, task, sup, stop, handler, cepoch, panicked>>

\* The network breaks the stream.
StreamLost ==
    /\ Alive /\ conn.st = "open" /\ nsess > 0
    /\ conn' = [conn EXCEPT !.st = "broken"]
    /\ wire' = <<>> /\ srvIdle' = NoSrvIdle
    /\ UNCHANGED <<fixedVars, Folder, ReadOnly, Connected, state, chanVars,
                   logVars, nsess, task, sup, stop, handler, cepoch, panicked>>

Handlers == [OnExists : BOOLEAN, OnExpunge : BOOLEAN, OnFetch : {FALSE}]

\* A Dialer that New has returned and on which INBOX has been selected;
\* neither sets d.state, which is still its zero value.
SessionReady ==
    /\ made = TRUE
    /\ Folder = "INBOX" /\ ReadOnly = FALSE /\ Connected = TRUE
    /\ useXOAUTH2 = FALSE
    /\ conn = [st |-> "open", auth |-> TRUE, sel |-> "INBOX", ro |-> FALSE]
    /\ RetryCount = 0
    /\ srvFolders = Folders /\ pwGood = TRUE
    /\ call = NoCall /\ pre = NoPre /\ ev = <<>>
    /\ NoRead
    /\ state = StateDisconnected
    /\ idleStop = 0 /\ idleDone = 0
    /\ closedStop = {} /\ closedDone = {} /\ closedReady = {}
    /\ nsess = 0
    /\ task = [k \in Sessions |-> NoTask]
    /\ sup = NoSup
    /\ stop = [c \in Callers |-> NoStop]
    /\ wire = <<>> /\ srvIdle = NoSrvIdle /\ cepoch = 0
    /\ sent = <<>> /\ taken = <<>> /\ dispatched = <<>>
    /\ panicked = FALSE

\* The control flow of IDLE: the user starts and stops it at any time, the
\* ticker fires at any time, the stream may break.  The server sends no
\* mailbox events: the callback returns nil for them and sets nothing.
InitIdle == SessionReady /\ handler = NoHandler

NextIdle ==
    \/ StartIdle(MaxIdleSessions)
    \/ StopIdle
    \/ \E c \in Callers : StopWrite(c)
    \/ \E c \in Callers : StopWait(c)
    \/ SupReconnect
    \/ startIdleSingle(MaxIdleSessions)
    \/ SupReady
    \/ SupTimeout
    \/ SupTick
    \/ SupDone
    \/ \E k \in Sessions : TaskWrite(k)
    \/ \E k \in Sessions : TaskRead(k)
    \/ \E k \in Sessions : TaskDefer(k)
    \/ \E k \in Sessions : TaskExit(k)
    \/ ServerContinues
    \/ ServerBye
    \/ StreamLost

SpecIdle == InitIdle /\ [][NextIdle]_vars

\* The events of IDLE: the user starts the monitoring with any handler and
\* lets it run; the stream does not break, the server answers IDLE in time and
\* sends events but no BYE, and the ticker fires at any time.
InitEvents == SessionReady /\ handler \in Handlers

NextEvents ==
    \/ StartIdle(MaxSessions)
    \/ \E c \in Callers : StopWrite(c)
    \/ \E c \in Callers : StopWait(c)
    \/ startIdleSingle(MaxSessions)
    \/ SupReady
    \/ SupTick
    \/ \E k \in Sessions : TaskWrite(k)
    \/ \E k \in Sessions : TaskRead(k)
    \/ \E k \in Sessions : TaskDefer(k)
    \/ \E k \in Sessions : TaskExit(k)
    \/ ServerContinues
    \/ ServerEvent

SpecEvents == InitEvents /\ [][NextEvents]_vars


\* ---------------------------------------------------------------------
\* Properties of SpecIdle
\* ---------------------------------------------------------------------

\* C7: StartIdle returns nil only when the state is Idling, that is after the
\* callback has seen the server's continuation line; without the continuation
\* it returns an error after five seconds.  As the code has it, StartIdle
\* returns nil as soon as the supervisor is started, in whatever state.
C7_StartIdleNilMeansIdling ==
    [][StartIdle(MaxIdleSessions) => state' = StateIdling]_vars

C9_NoOverlappingIdle ==
    [][\A k \in Sessions :
         (task[k].tick /\ task[k].pc = "start" /\ task'[k].pc = "read") =>
            \A j \in Sessions \ {k} : task[j].pc \notin {"start", "read", "spin"}]_vars

\* The handler call that the claim wants for one event line.
Wanted(line) ==
    IF line.evt = "EXISTS" /\ handler.OnExists
    THEN <<[evt |-> "Exists", n |-> line.n]>>
    ELSE IF line.evt = "EXPUNGE" /\ handler.OnExpunge
    THEN <<[evt |-> "Expunge", n |-> line.n]>>
    ELSE <<>>

RECURSIVE WantedAll(_)
WantedAll(lines) ==
    IF lines = <<>> THEN <<>>
    ELSE Wanted(Head(lines)) \o WantedAll(Tail(lines))

C19_OneOutstandingCommand ==
    Cardinality({ k \in Sessions : /\ task[k].pc = "read"
                                   /\ task[k].e = cepoch
                                   /\ conn.st = "open" }) <= 1

\* C14: a handler function that never returns (every dispatched function of
\* the model is one) keeps neither the IDLE task from reading and dispatching
\* the next line of its stream, nor a StopIdle whose exit signal has been
\* given from completing.
C14_HungHandlerBlocksNothing ==
    /\ \A k \in Sessions :
         ( /\ dispatched # <<>> /\ Alive
           /\ task[k].pc \notin {"none", "start", "spin", "defer", "defer2", "end"}
           /\ task[k].e = cepoch /\ conn.st = "open" /\ wire # <<>> ) =>
             ENABLED TaskRead(k)
    /\ \A c \in Callers :
         ( /\ dispatched # <<>> /\ Alive
           /\ stop[c].pc = "wait" /\ stop[c].w \in closedStop ) =>
             ENABLED StopWait(c)

\* Two events have been dispatched, the second while the function called for
\* the first has not returned, and the StopIdle of the refresh has received
\* the exit signal of the task.
C14_Witness ==
    /\ Len(dispatched) = 2
    /\ stop["sup"].pc = "wait" /\ stop["sup"].w \in closedStop
    /\ task[stop["sup"].w].pc \in {"defer2", "end"}


---------------------------------------------------------------------------
(* FETCH lines during IDLE *)

\* `n FETCH (UID u FLAGS (\f1 \f2 ...))` as the server writes it.
RECURSIVE FlagList(_)
FlagList(fl) ==
    IF fl = <<>> THEN <<>>
    ELSE <<"\\", Head(fl)>> \o (IF Len(fl) > 1 THEN <<" ">> ELSE <<>>) \o FlagList(Tail(fl))

FetchText(n, u, fl) ==
    <<n, " ", "FETCH", " ", "(", "UID", " ", u, " ", "FLAGS", " ", "(">>
      \o FlagList(fl) \o <<")", ")">>

FetchIndexes == {"3", "12"}

FetchUids == {"1000", "7"}

FlagNames == {"Seen", "Flagged"}

FlagLists == {<<>>} \cup { <<a>> : a \in FlagNames }
                    \cup { <<p[1], p[2]>> : p \in { q \in FlagNames \X FlagNames : q[1] # q[2] } }

\* The FETCH texts the server sends: with UID and FLAGS, with FLAGS before
\* UID, and with UID alone.
FetchTexts ==
    { FetchText(n, "1000", fl) : n \in FetchIndexes, fl \in FlagLists }
      \cup { FetchText("3", "7", <<"Seen">>) }
      \cup { <<n, " ", "FETCH", " ", "(", "FLAGS", " ", "(", "\\", "Seen", ")",
               " ", "UID", " ", "1000", ")">> : n \in FetchIndexes }
      \cup { <<n, " ", "FETCH", " ", "(", "UID", " ", "1000", ")">> : n \in FetchIndexes }

FetchLine(txt) ==
    [Untagged EXCEPT !.pfx = "*", !.n = NumVal[txt[1]], !.evt = "FETCH", !.txt = txt]

\* The mailbox changes: the server sends `* n FETCH (...)`.
ServerFetch ==
    /\ Alive /\ conn.st = "open" /\ srvIdle.tag # 0 /\ srvIdle.plus
    /\ Len(sent) < MaxEvents
    /\ \E txt \in FetchTexts :
         /\ wire' = Append(wire, FetchLine(txt))
         /\ sent' = Append(sent, FetchLine(txt))
    /\ UNCHANGED <<fixedVars, Folder, ReadOnly, Connected, conn, state, chanVars,
                   taken, dispatched, nsess, task, sup, stop, handler,
                   srvIdle, cepoch, panicked>>

\* The user starts the monitoring with or without an OnFetch function and
\* lets it run; the server answers IDLE in time and sends FETCH lines.
InitFetch == SessionReady /\ handler \in [OnExists : {FALSE}, OnExpunge : {FALSE},
                                          OnFetch : BOOLEAN]

NextFetch ==
    \/ StartIdle(MaxIdleSessions)
    \/ startIdleSingle(MaxIdleSessions)
    \/ SupReady
    \/ \E k \in Sessions : TaskWrite(k)
    \/ \E k \in Sessions : TaskRead(k)
    \/ \E k \in Sessions : TaskDefer(k)
    \/ \E k \in Sessions : TaskExit(k)
    \/ ServerContinues
    \/ ServerFetch

SpecFetch == InitFetch /\ [][NextFetch]_vars

\* C11: a line `* n FETCH (UID u FLAGS (flags))` read during IDLE, with an
\* OnFetch function set, is delivered as Fetch{index n, uid u, flags: the
\* listed names without their backslash and otherwise unchanged}.  As the
\* code has it, the uid is the number that the whole text between the
\* parentheses spells, which is none, and the names arrive in upper case.
C11_FetchDelivered ==
    [][\A n \in FetchIndexes, u \in FetchUids, fl \in FlagLists :
         ( /\ handler.OnFetch
           /\ wire # <<>> /\ Head(wire) = FetchLine(FetchText(n, u, fl))
           /\ wire' = Tail(wire) ) =>
             dispatched' = Append(dispatched,
                                  [evt |-> "Fetch", n |-> NumVal[n], uid |-> NumVal[u],
                                   flags |-> [i \in DOMAIN fl |-> <<fl[i]>>]])]_vars

\* C12: a FETCH line without a FLAGS item read during IDLE is ignored: no
\* handler call is started, the IDLE task goes on reading, the socket stays
\* open and the state is what it was.  As the code has it, runIdleEvent
\* returns an error for it when OnFetch is set.
C12_FetchWithoutFlagsIgnored ==
    [][( /\ wire # <<>> /\ Head(wire).evt = "FETCH"
         /\ \A i \in DOMAIN Head(wire).txt : Head(wire).txt[i] # "FLAGS"
         /\ Len(wire') < Len(wire) ) =>
           /\ dispatched' = dispatched
           /\ task' = task
           /\ conn' = conn /\ Connected' = Connected
           /\ state' = state]_vars


---------------------------------------------------------------------------
(* Close while IDLE monitoring is active *)

\* conn.go:213-225  the user calls d.Close() while the supervisor waits for
\* the IDLE to begin, waits in its select or refreshes the IDLE: the stream
\* is healthy, conn.Close() succeeds, Connected becomes false.  Close
\* touches neither d.state nor the channels.
UserClose ==
    /\ Alive /\ call = NoCall
    /\ sup.pc \in {"ready", "select", "stopping"}
    /\ Connected /\ conn.st = "open"
    /\ LET cl == IdleClose(FALSE, FALSE) IN
       /\ Connected' = cl.Connected
       /\ conn' = cl.conn
    /\ wire' = <<>> /\ srvIdle' = NoSrvIdle
    /\ call' = [op |-> "Close", a |-> "", r |-> "ok"]
    /\ UNCHANGED <<made, useXOAUTH2, RetryCount, srvFolders, pwGood, pre, ev,
                   streamVars, Folder, ReadOnly, state, chanVars, logVars,
                   nsess, task, sup, stop, handler, cepoch, panicked>>

NextShutdown ==
    \/ StartIdle(MaxIdleSessions)
    \/ UserClose
    \/ \E c \in Callers : StopWrite(c)
    \/ \E c \in Callers : StopWait(c)
    \/ SupReconnect
    \/ startIdleSingle(MaxIdleSessions)
    \/ SupReady
    \/ SupTick
    \/ \E k \in Sessions : TaskWrite(k)
    \/ \E k \in Sessions : TaskRead(k)
    \/ \E k \in Sessions : TaskDefer(k)
    \/ \E k \in Sessions : TaskExit(k)
    \/ ServerContinues

SpecShutdown == InitIdle /\ [][NextShutdown]_vars

\* C15: once a Close called while IDLE monitoring was active has returned,
\* no background task dials or re-authenticates: the stream of the Dialer
\* is not replaced and the Dialer does not become connected again, and the
\* IDLE task and the supervisor do not stay behind.
C15_CloseShutsDownIdle ==
    [][call.op = "Close" =>
         /\ cepoch' = cepoch
         /\ Connected' = Connected
         /\ conn' = conn
         /\ \A k \in Sessions : task'[k].pc # "spin"]_vars


---------------------------------------------------------------------------
(* Several Dialers of one process: the package variable lastResp *)

MaxCalls == 2

StringWords == {"ptr", "len"}

\* The response the retry loop of Dialer i has built in its call c from the
\* lines of its own stream: a buffer of its own, i lines long.
OwnResp(i, c) == [ptr |-> <<i, c>>, len |-> i]

\* exec.go:153-251  Dialer i is in Exec with buildResponse: the retry loop
\* has ended without an error and resp is not empty.
ExecBuilt(i) ==
    /\ execs[i].pc = "idle" /\ execs[i].c < MaxCalls
    /\ execs' = [execs EXCEPT ![i] = [pc |-> "store", c |-> @.c + 1,
                                      todo |-> StringWords, ret |-> NoResp]]
    /\ UNCHANGED <<seqVars, idleVars, connVars, rdStream, rdTag, rdCb, rdOut, lastResp, pureVars>>

\* exec.go:255  lastResp = resp.String(): a string is a pointer and a
\* length, stored by two writes that nothing orders against the other
\* Dialers' goroutines.
StoreWord(i) ==
    /\ execs[i].pc = "store"
    /\ \E w \in execs[i].todo :
         /\ lastResp' = [lastResp EXCEPT ![w] = OwnResp(i, execs[i].c)[w]]
         /\ execs' = [execs EXCEPT ![i].todo = IF @ = {w} THEN StringWords ELSE @ \ {w},
                                   ![i].pc = IF execs[i].todo = {w} THEN "load" ELSE "store"]
    /\ UNCHANGED <<seqVars, idleVars, connVars, rdStream, rdTag, rdCb, rdOut, pureVars>>

\* exec.go:256  return lastResp, nil: the two words are read back from the
\* package variable.
LoadWord(i) ==
    /\ execs[i].pc = "load"
    /\ \E w \in execs[i].todo :
         execs' = [execs EXCEPT ![i].ret[w] = lastResp[w],
                                ![i].todo = @ \ {w},
                                ![i].pc = IF execs[i].todo = {w} THEN "ret" ELSE "load"]
    /\ UNCHANGED <<seqVars, idleVars, connVars, rdStream, rdTag, rdCb, rdOut, lastResp, pureVars>>

\* The caller has the response; the Dialer is free for its next command.
ExecReturn(i) ==
    /\ execs[i].pc = "ret"
    /\ execs' = [execs EXCEPT ![i].pc = "idle", ![i].ret = NoResp]
    /\ UNCHANGED <<seqVars, idleVars, connVars, rdStream, rdTag, rdCb, rdOut, lastResp, pureVars>>

InitShared ==
    /\ NoDialer /\ RetryCount = 0
    /\ NoRead
    /\ NoIdle

NextShared ==
    \/ \E i \in Dialers : ExecBuilt(i)
    \/ \E i \in Dialers : StoreWord(i)
    \/ \E i \in Dialers : LoadWord(i)
    \/ \E i \in Dialers : ExecReturn(i)

SpecShared == InitShared /\ [][NextShared]_vars

\* C20: the response text Exec returns on a Dialer is the text built from
\* the lines of that Dialer's own stream during that call.
C20_OwnResponseOnly ==
    \A i \in Dialers :
       execs[i].pc = "ret" => execs[i].ret = OwnResp(i, execs[i].c)


---------------------------------------------------------------------------
(* The reply to UID SEARCH *)

\* A reply is a sequence of lines, a line a sequence of words; in the text
\* Exec returns, the words of a line are separated by a space and every line
\* ends with nl.
nl == "\r\n"

MaxUids == 2

MaxReplyLines == 3

SearchUids == {"7", "12"}

PreambleLine == <<"+", "Ready">>

StatusLine == <<"*", "OK">>

SearchLine(uids) == <<"*", "SEARCH">> \o uids

TaggedOK == <<"A1", "OK">>

TaggedNO == <<"A1", "NO">>

UidLists == UNION { [1..n -> SearchUids] : n \in 0..MaxUids }

UntaggedLines == {PreambleLine, StatusLine} \cup { SearchLine(u) : u \in UidLists }

\* The replies of a server: some untagged lines, then the tagged completion.
Replies ==
    { ls \o <<t>> : ls \in UNION { [1..n -> UntaggedLines] : n \in 0..(MaxReplyLines - 1) },
                    t \in {TaggedOK, TaggedNO} }

\* The words of a line with a space between two of them.
RECURSIVE Spaced(_)
Spaced(words) ==
    IF Len(words) <= 1 THEN words
    ELSE <<Head(words), " ">> \o Spaced(Tail(words))

\* The text of the lines, each ended by nl.
RECURSIVE Text(_)
Text(lines) ==
    IF lines = <<>> THEN <<>>
    ELSE Spaced(Head(lines)) \o <<nl>> \o Text(Tail(lines))

\* strings.Index(r, sep): the first position of sep in r, 0 for none.
Index(r, sep) ==
    IF \E i \in DOMAIN r : r[i] = sep
    THEN CHOOSE i \in DOMAIN r : r[i] = sep /\ \A j \in 1..(i - 1) : r[j] # sep
    ELSE 0

\* strings.Fields: the words between the white space.
StrFields(r) == SelectSeq(r, LAMBDA t : t \notin {" ", nl})

\* A parser that wants at least one UID after `* SEARCH`.
parseUIDSearchResponseAlt(r) ==
    LET fields == StrFields(IF Index(r, nl) # 0 THEN SubSeq(r, 1, Index(r, nl) - 1) ELSE r)
    IN IF Len(fields) >= 3 /\ fields[1] = "*" /\ fields[2] = "SEARCH"
       THEN [err |-> FALSE, uids |-> [i \in 1..(Len(fields) - 2) |-> Atoi(<<fields[i + 2]>>)]]
       ELSE [err |-> TRUE, uids |-> <<>>]

\* parse.go:317-334  parseUIDSearchResponse: the text up to the first nl is
\* split into fields; the fields after `* SEARCH` are the UIDs.
parseUIDSearchResponse(r) ==
    LET fields == StrFields(IF Index(r, nl) # 0 THEN SubSeq(r, 1, Index(r, nl) - 1) ELSE r)
    IN IF Len(fields) >= 2 /\ fields[1] = "*" /\ fields[2] = "SEARCH"
       THEN IF \A i \in 3..Len(fields) : fields[i] \in Numbers
            THEN [err |-> FALSE,
                  uids |-> [i \in 1..(Len(fields) - 2) |-> Atoi(<<fields[i + 2]>>)]]
            ELSE [err |-> TRUE, uids |-> <<>>]
       ELSE [err |-> TRUE, uids |-> <<>>]

\* exec.go:217-236, 248-260  what Exec returns for a reply with buildResponse
\* and no callback: an error when the tagged line is not OK, else the text
\* of the lines before it.
ExecResponse(reply) ==
    LET last == reply[Len(reply)] IN
    IF last # TaggedOK THEN [err |-> TRUE, text |-> <<>>]
    ELSE [err |-> FALSE, text |-> Text(SubSeq(reply, 1, Len(reply) - 1))]

\* message.go:153-159  GetUIDs on a reply.
GetUIDsOf(reply) ==
    IF ExecResponse(reply).err THEN [err |-> TRUE, uids |-> <<>>]
    ELSE parseUIDSearchResponse(ExecResponse(reply).text)

\* part_011:211-259  parseUIDSearchResponse applied to the whole text of a
\* reply, as its test does.
ParseSearch ==
    /\ output = NoOutput
    /\ output' = [fn |-> "parseUIDSearchResponse",
                  r |-> parseUIDSearchResponse(Text(input))]
    /\ UNCHANGED <<seqVars, idleVars, connVars, rdStream, rdTag, rdCb, rdOut, lastResp,
                   execs, input>>

\* message.go:153  GetUIDs whose command the server answers with the reply.
GetUIDsReturns ==
    /\ output = NoOutput
    /\ output' = [fn |-> "GetUIDs", r |-> GetUIDsOf(input)]
    /\ UNCHANGED <<seqVars, idleVars, connVars, rdStream, rdTag, rdCb, rdOut, lastResp,
                   execs, input>>

InitSearch ==
    /\ NoDialer /\ RetryCount = 0
    /\ NoIdle
    /\ rdStream = <<>> /\ rdTag = 0 /\ rdCb = "none" /\ rdOut = NoOut
    /\ NoShared
    /\ input \in Replies
    /\ output = NoOutput

NextSearch == ParseSearch \/ GetUIDsReturns

SpecSearch == InitSearch /\ [][NextSearch]_vars

\* The numbers of a list of UIDs as they are written.
UidValues(uids) == [i \in DOMAIN uids |-> NumVal[uids[i]]]

\* C23: parseUIDSearchResponse returns the UIDs of the `* SEARCH` line, in
\* order, when that line is preceded in the text by a continuation line.
C23_PreambleIgnored ==
    \A u \in UidLists :
       ( /\ output.fn = "parseUIDSearchResponse"
         /\ input = <<PreambleLine, SearchLine(u), TaggedOK>> ) =>
           /\ ~output.r.err
           /\ output.r.uids = UidValues(u)

---------------------------------------------------------------------------
(* The last UIDs of the mailbox *)

MaxN == 3

\* The counts a caller asks for: negative, zero, and up to MaxN.
Counts == (0 - 1)..MaxN

\* A GetLastNUIDs that keeps the first n UIDs.
GetLastNUIDsAlt(n, reply) ==
    IF n <= 0 THEN [sent |-> 0, err |-> FALSE, uids |-> <<>>]
    ELSE LET all == GetUIDsOf(reply) IN
         IF all.err THEN [sent |-> 1, err |-> TRUE, uids |-> <<>>]
         ELSE IF Len(all.uids) <= n THEN [sent |-> 1, err |-> FALSE, uids |-> all.uids]
         ELSE [sent |-> 1, err |-> FALSE, uids |-> SubSeq(all.uids, 1, n)]

\* message.go:168-180  GetLastNUIDs(n) when the server answers UID SEARCH ALL
\* with the reply; sent counts the commands it has sent.
GetLastNUIDs(n, reply) ==
    IF n <= 0 THEN [sent |-> 0, err |-> FALSE, uids |-> <<>>]
    ELSE LET all == GetUIDsOf(reply) IN
         IF all.err THEN [sent |-> 1, err |-> TRUE, uids |-> <<>>]
         ELSE IF Len(all.uids) <= n THEN [sent |-> 1, err |-> FALSE, uids |-> all.uids]
         ELSE [sent |-> 1, err |-> FALSE,
               uids |-> SubSeq(all.uids, Len(all.uids) - n + 1, Len(all.uids))]

GetLastNUIDsReturns ==
    /\ output = NoOutput
    /\ output' = [fn |-> "GetLastNUIDs", r |-> GetLastNUIDs(input.n, input.reply)]
    /\ UNCHANGED <<seqVars, idleVars, connVars, rdStream, rdTag, rdCb, rdOut, lastResp,
                   execs, input>>

\* GetUIDs("ALL") of the same mailbox, as TestIntegration_GetLastNUIDs
\* calls it next to GetLastNUIDs.
GetAllReturns ==
    /\ output = NoOutput
    /\ output' = [fn |-> "GetUIDs", r |-> GetUIDsOf(input.reply)]
    /\ UNCHANGED <<seqVars, idleVars, connVars, rdStream, rdTag, rdCb, rdOut, lastResp,
                   execs, input>>

InitLastN ==
    /\ NoDialer /\ RetryCount = 0
    /\ NoIdle
    /\ rdStream = <<>> /\ rdTag = 0 /\ rdCb = "none" /\ rdOut = NoOut
    /\ NoShared
    /\ input \in [n : Counts, reply : Replies]
    /\ output = NoOutput

NextLastN == GetLastNUIDsReturns \/ GetAllReturns

SpecLastN == InitLastN /\ [][NextLastN]_vars

Min(a, b) == IF a <= b THEN a ELSE b

\* The last k elements of a sequence.
LastK(seq, k) == SubSeq(seq, Len(seq) - k + 1, Len(seq))

\* C25: GetLastNUIDs(n) returns an empty result and sends no command when
\* n <= 0; otherwise, when GetUIDs("ALL") returns a list, it returns the last
\* min(n, total) elements of that list in the same order.
C25_LastNIsTail ==
    output.fn = "GetLastNUIDs" =>
        /\ input.n <= 0 =>
              /\ output.r.sent = 0
              /\ ~output.r.err
              /\ output.r.uids = <<>>
        /\ (input.n > 0 /\ ~GetUIDsOf(input.reply).err) =>
              /\ ~output.r.err
              /\ output.r.uids
                   = LastK(GetUIDsOf(input.reply).uids,
                           Min(input.n, Len(GetUIDsOf(input.reply).uids)))

\* GetLastNUIDs(1) has returned the second of two UIDs.
C25_Witness ==
    /\ output.fn = "GetLastNUIDs"
    /\ input.n = 1
    /\ Len(GetUIDsOf(input.reply).uids) = 2
    /\ output.r.uids = <<12>>
    /\ GetUIDsOf(input.reply).uids = <<7, 12>>


---------------------------------------------------------------------------
(* The command SetFlags builds *)

\* flags.go:13-20  the FlagSet fields of Flags in the order of the struct.
FlagFields == <<"Seen", "Answered", "Flagged", "Deleted", "Draft">>

\* flags.go:6-10
FlagSets == {"FlagUnset", "FlagAdd", "FlagRemove"}

MaxKeywords == 2

KeywordNames == <<"$Work", "$Todo", "$Later">>

\* The Keywords maps: some of the first MaxKeywords names, each true or false.
KeywordMaps ==
    UNION { [K -> BOOLEAN] : K \in SUBSET { KeywordNames[i] : i \in 1..MaxKeywords } }

FlagsValues ==
    { [fields |-> f, Keywords |-> k] :
        f \in [{ FlagFields[i] : i \in DOMAIN FlagFields } -> FlagSets],
        k \in KeywordMaps }

\* The orders in which a range over a map can visit its keys.
RangeOrders(m) ==
    { o \in [1..Cardinality(DOMAIN m) -> DOMAIN m] :
        \A i, j \in DOMAIN o : i # j => o[i] # o[j] }

\* fmt.Sprintf("%d", n)
Itoa(n) == CHOOSE t \in DOMAIN NumVal : NumVal[t] = n

\* message.go:266-279  the names of the fields with the value v, in the
\* order of the struct, each after a backslash.
FieldFlags(flags, v) ==
    LET marked == SelectSeq(FlagFields, LAMBDA f : flags.fields[f] = v)
    IN [i \in DOMAIN marked |-> "\\" \o marked[i]]

\* message.go:282-288  the keywords with the state b in the order the map is
\* visited.
KeywordFlags(flags, order, b) == SelectSeq(order, LAMBDA k : flags.Keywords[k] = b)

\* message.go:290-296  the command as its words.
StoreQuery(uid, addFlags, removeFlags) ==
    <<"UID", "STORE", Itoa(uid)>>
      \o (IF Len(addFlags) > 0 THEN <<"+FLAGS", "(">> \o addFlags \o <<")">> ELSE <<>>)
      \o (IF Len(removeFlags) > 0 THEN <<"-FLAGS", "(">> \o removeFlags \o <<")">> ELSE <<>>)

\* message.go:258-308  SetFlags up to its call of Exec, which it makes once
\* with the command built.
SetFlagsSends ==
    /\ output = NoOutput
    /\ \E order \in RangeOrders(input.flags.Keywords) :
         output' = [fn |-> "SetFlags",
                    execs |-> 1,
                    query |-> StoreQuery(input.uid,
                                FieldFlags(input.flags, "FlagAdd")
                                  \o KeywordFlags(input.flags, order, TRUE),
                                FieldFlags(input.flags, "FlagRemove")
                                  \o KeywordFlags(input.flags, order, FALSE))]
    /\ UNCHANGED <<seqVars, idleVars, connVars, rdStream, rdTag, rdCb, rdOut, lastResp,
                   execs, input>>

InitFlags ==
    /\ NoDialer /\ RetryCount = 0
    /\ NoIdle
    /\ rdStream = <<>> /\ rdTag = 0 /\ rdCb = "none" /\ rdOut = NoOut
    /\ NoShared
    /\ input \in [uid : {3, 12}, flags : FlagsValues]
    /\ output = NoOutput

NextFlags == SetFlagsSends

SpecFlags == InitFlags /\ [][NextFlags]_vars

\* The flags a Flags value marks with the FlagSet v and the keyword state b.
Marked(flags, v, b) ==
    { "\\" \o FlagFields[i] : i \in { j \in DOMAIN FlagFields : flags.fields[FlagFields[j]] = v } }
      \cup { k \in DOMAIN flags.Keywords : flags.Keywords[k] = b }

\* The words in the parentheses after the word part of a command, or
\* the empty set when the command has no such part.
PartOf(query, part) ==
    IF Index(query, part) = 0 THEN {}
    ELSE LET from == Index(query, part) + 2
             rest == SubSeq(query, from, Len(query))
         IN { rest[i] : i \in 1..(Index(rest, ")") - 1) }

\* C26: SetFlags sends one UID STORE command for the UID whose `+FLAGS (...)`
\* part lists exactly the flags and keywords marked add and whose
\* `-FLAGS (...)` part lists exactly those marked remove, and at least one of
\* the two parts is present.
C26_StoreListsMarkedFlags ==
    output.fn = "SetFlags" =>
        /\ output.execs = 1
        /\ SubSeq(output.query, 1, 3) = <<"UID", "STORE", Itoa(input.uid)>>
        /\ PartOf(output.query, "+FLAGS") = Marked(input.flags, "FlagAdd", TRUE)
        /\ PartOf(output.query, "-FLAGS") = Marked(input.flags, "FlagRemove", FALSE)
        /\ \/ Index(output.query, "+FLAGS") # 0
           \/ Index(output.query, "-FLAGS") # 0


---------------------------------------------------------------------------
(* The tokens of a FETCH record *)

\* The text is a sequence of bytes, r[i] of the code being r[i + 1] here.
\* int is modelled with IntBits bits, so that a size near the largest int is
\* a short string of digits; texts are shorter than the largest int.
IntBits == 5

MaxInt == 2 ^ (IntBits - 1) - 1

\* The value of an int expression after wrap-around.
Wrap(x) == ((x + 2 ^ (IntBits - 1)) % (2 ^ IntBits)) - 2 ^ (IntBits - 1)

DigitChars == <<"0", "1", "2", "3", "4", "5", "6", "7", "8", "9">>

IsDigit(b) == \E k \in DOMAIN DigitChars : DigitChars[k] = b

DigitVal(b) == (CHOOSE k \in DOMAIN DigitChars : DigitChars[k] = b) - 1

LetterChars == {"a", "N", "I", "L", "F", "E", "T", "C", "H"}

\* parse.go:337-349  IsLiteral
IsLiteral(b) == IsDigit(b) \/ b \in LetterChars \/ b \in {"\\", ".", "[", "]"}

\* The digits of n.
RECURSIVE Digits(_)
Digits(n) ==
    IF n < 10 THEN <<DigitChars[n + 1]>>
    ELSE Digits(n \div 10) \o <<DigitChars[(n % 10) + 1]>>

RECURSIVE DecVal(_)
DecVal(s) ==
    IF s = <<>> THEN 0
    ELSE 10 * DecVal(SubSeq(s, 1, Len(s) - 1)) + DigitVal(s[Len(s)])

\* strconv.Atoi of bytes that hold no sign: an error for no digit, for a byte
\* that is no digit and for a value that no int holds.
strconvAtoi(s) ==
    IF s = <<>> \/ \E k \in DOMAIN s : ~IsDigit(s[k]) THEN [ok |-> FALSE, n |-> 0]
    ELSE IF Len(s) > Len(Digits(MaxInt)) \/ DecVal(s) > MaxInt THEN [ok |-> FALSE, n |-> 0]
    ELSE [ok |-> TRUE, n |-> DecVal(s)]

\* r[a:b] is in range.
InRange(r, a, b) == 0 <= a /\ a <= b /\ b <= Len(r)

\* r[a:b]
Slice(r, a, b) == SubSeq(r, a + 1, b)

\* main.go:34  RemoveSlashes: every `\"` becomes `"`, from left to right.
RECURSIVE RemoveSlashes(_)
RemoveSlashes(s) ==
    IF Len(s) < 2 THEN s
    ELSE IF s[1] = "\\" /\ s[2] = "\"" THEN <<"\"">> \o RemoveSlashes(SubSeq(s, 3, Len(s)))
    ELSE <<s[1]>> \o RemoveSlashes(Tail(s))

\* parse.go:45-57  calculateTokenEnd
calculateTokenEnd(tokenStart, sizeVal, bufferLen) ==
    IF tokenStart >= bufferLen
    THEN IF sizeVal = 0 THEN [err |-> FALSE, end |-> tokenStart - 1]
                        ELSE [err |-> TRUE, end |-> 0]
    ELSE IF Wrap(tokenStart + sizeVal) > bufferLen
    THEN [err |-> FALSE, end |-> bufferLen - 1]
    ELSE [err |-> FALSE, end |-> Wrap(Wrap(tokenStart + sizeVal) - 1)]

\* A token with the depth d of the container it was appended to; the tokens
\* of a container are the tokens of depth d + 1 that follow it.
Tok(type, str, num, d) == [Type |-> type, Str |-> str, Num |-> num, d |-> d]

\* parse.go:61-68  the variables of parseFetchTokens; res is "run" until the
\* function returns an error or panics.
ParseStart ==
    [i |-> 0, currentToken |-> "TUnset", tokenStart |-> 0, tokenEnd |-> 0,
     depth |-> 0, tokens |-> <<>>, res |-> "run"]

\* parse.go:70-116  pushToken: a slice out of range panics.
pushToken(r, p) ==
    LET put(t) == [p EXCEPT !.tokens = Append(@, t), !.currentToken = "TUnset"]
        s == Slice(r, p.tokenStart, p.tokenEnd + 1)
    IN IF p.res # "run" \/ p.currentToken = "TUnset" THEN p
       ELSE IF p.currentToken = "TContainer" THEN put(Tok("TContainer", <<>>, 0, p.depth))
       ELSE IF ~InRange(r, p.tokenStart, p.tokenEnd + 1) THEN [p EXCEPT !.res = "panic"]
       ELSE IF p.currentToken = "TQuoted"
            THEN put(Tok("TQuoted", RemoveSlashes(s), 0, p.depth))
       ELSE IF p.currentToken = "TAtom" THEN put(Tok("TAtom", s, 0, p.depth))
       ELSE IF strconvAtoi(s).ok THEN put(Tok("TNumber", <<>>, strconvAtoi(s).n, p.depth))
       ELSE IF s = <<"N", "I", "L">> THEN put(Tok("TNil", <<>>, 0, p.depth))
       ELSE put(Tok("TLiteral", s, 0, p.depth))

\* parse.go:175-205  no token is being read: the byte b starts one.
StartToken(r, p, b) ==
    IF p.res # "run" \/ p.currentToken # "TUnset" THEN p
    ELSE IF b = "\"" THEN [p EXCEPT !.currentToken = "TQuoted", !.tokenStart = p.i + 1]
    ELSE IF IsLiteral(b) THEN [p EXCEPT !.currentToken = "TLiteral", !.tokenStart = p.i]
    ELSE IF b = "{" THEN [p EXCEPT !.currentToken = "TAtom", !.tokenStart = p.i + 1]
    ELSE IF b = "("
         THEN [pushToken(r, [p EXCEPT !.currentToken = "TContainer"])
                  EXCEPT !.depth = @ + 1]
    ELSE IF b = ")"
         THEN IF p.depth = 0 THEN [p EXCEPT !.res = "error"]
                             ELSE [p EXCEPT !.depth = @ - 1]
    ELSE p

\* parse.go:207-218  Cont: the next byte; a token still being read at the end
\* of the text ends there.
Cont(r, p) ==
    IF p.res # "run" THEN p
    ELSE IF p.i + 1 >= Len(r) /\ p.currentToken # "TUnset"
         THEN pushToken(r, [p EXCEPT !.i = @ + 1, !.tokenEnd = Len(r) - 1])
         ELSE [p EXCEPT !.i = @ + 1]

\* The position after an optional CR and an optional LF at position i.
SkipCRLF(r, i) ==
    LET j == IF i < Len(r) /\ r[i + 1] = "\r" THEN i + 1 ELSE i
    IN IF j < Len(r) /\ r[j + 1] = "\n" THEN j + 1 ELSE j

\* The literal of the size sizeVal starts at tokenStart.
LiteralData(r, p, tokenStart, sizeVal) ==
    IF calculateTokenEnd(tokenStart, sizeVal, Len(r)).err
    THEN [p EXCEPT !.res = "error"]
    ELSE pushToken(r, [p EXCEPT
                         !.tokenStart = tokenStart,
                         !.tokenEnd = calculateTokenEnd(tokenStart, sizeVal, Len(r)).end,
                         !.i = calculateTokenEnd(tokenStart, sizeVal, Len(r)).end])

\* parse.go:145-172  the byte at i ends the digits of a literal's size.
LiteralSize(r, p) ==
    IF ~strconvAtoi(Slice(r, p.tokenStart, p.i)).ok THEN [p EXCEPT !.res = "error"]
    ELSE LiteralData(r, p, SkipCRLF(r, p.i + 1), strconvAtoi(Slice(r, p.tokenStart, p.i)).n)

\* parse.go:120-218  one turn of the loop, at the byte r[i].
Turn(r, p) ==
    LET b == r[p.i + 1] IN
    IF p.currentToken = "TQuoted"
    THEN IF b = "\"" THEN Cont(r, pushToken(r, [p EXCEPT !.tokenEnd = p.i - 1]))
         ELSE IF b = "\\" THEN Cont(r, [p EXCEPT !.i = @ + 1])
         ELSE Cont(r, p)
    ELSE IF p.currentToken = "TLiteral"
    THEN IF IsLiteral(b) THEN Cont(r, p)
         ELSE Cont(r, StartToken(r, pushToken(r, [p EXCEPT !.tokenEnd = p.i - 1]), b))
    ELSE IF p.currentToken = "TAtom"
    THEN IF IsDigit(b) THEN Cont(r, p)
         ELSE Cont(r, StartToken(r, LiteralSize(r, p), b))
    ELSE Cont(r, StartToken(r, p, b))

\* parse.go:118-219  for i < l
RECURSIVE TokenLoop(_, _)
TokenLoop(r, p) ==
    IF p.res # "run" \/ p.i >= Len(r) THEN p ELSE TokenLoop(r, Turn(r, p))

\* parse.go:224-226  a single container at the top gives way to its tokens.
Unwrapped(tokens) ==
    IF /\ Cardinality({ k \in DOMAIN tokens : tokens[k].d = 0 }) = 1
       /\ tokens[1].Type = "TContainer"
    THEN [k \in 1..(Len(tokens) - 1) |-> [tokens[k + 1] EXCEPT !.d = @ - 1]]
    ELSE tokens

\* parse.go:220-228  the loop has ended in p.
TokensOf(p) ==
    IF p.res # "run" THEN [res |-> p.res, tokens |-> <<>>]
    ELSE IF p.depth # 0 THEN [res |-> "error", tokens |-> <<>>]
    ELSE [res |-> "ok", tokens |-> Unwrapped(p.tokens)]

\* parse.go:60  parseFetchTokens: "ok" with the tokens, "error", or "panic".
parseFetchTokens(r) == TokensOf(TokenLoop(r, ParseStart))

MaxPieces == 4

\* The sizes a literal declares.
Sizes == {0, 1, 3, MaxInt}

\* `{n}` CR LF
LiteralHeader(n) == <<"{">> \o Digits(n) \o <<"}", "\r", "\n">>

\* What a text is put together from.
Pieces ==
    { <<"(">>, <<")">>, <<"\"">>, <<"\\">>, <<"a">>, <<" ">>, <<"{">>, <<"}">>,
      <<"7">>, <<"N", "I", "L">> }
      \cup { LiteralHeader(n) : n \in Sizes }

RECURSIVE Flat(_)
Flat(ps) == IF ps = <<>> THEN <<>> ELSE Head(ps) \o Flat(Tail(ps))

\* The texts of up to m pieces that are shorter than the largest int.
Texts(m) ==
    { t \in { Flat(ps) : ps \in UNION { [1..n -> Pieces] : n \in 0..m } } :
        Len(t) < MaxInt }

ParseTokens ==
    /\ output = NoOutput
    /\ output' = [fn |-> "parseFetchTokens", r |-> parseFetchTokens(input)]
    /\ UNCHANGED <<seqVars, idleVars, connVars, rdStream, rdTag, rdCb, rdOut, lastResp,
                   execs, input>>

InitTokens ==
    /\ NoDialer /\ RetryCount = 0
    /\ NoIdle
    /\ rdStream = <<>> /\ rdTag = 0 /\ rdCb = "none" /\ rdOut = NoOut
    /\ NoShared
    /\ input \in Texts(MaxPieces)
    /\ output = NoOutput

NextTokens == ParseTokens

SpecTokens == InitTokens /\ [][NextTokens]_vars

\* The text is the bytes lead, a literal header declaring n bytes, and fewer
\* than n bytes after it, at least one; no int overflows.
ShortLiteral(text, lead, n) ==
    LET k == Len(lead) + Len(LiteralHeader(n)) IN
    /\ Len(text) > k
    /\ SubSeq(text, 1, k) = lead \o LiteralHeader(n)
    /\ Len(text) - k < n
    /\ k + n <= MaxInt

\* The bytes after the first k.
From(text, k) == SubSeq(text, k + 1, Len(text))

\* C28: when a literal declares more bytes than remain in the text,
\* parseFetchTokens returns no error and the remaining bytes as an Atom, for
\* a literal at the top of the text and for one inside the parentheses of a
\* record that the text closes.
C28_ShortLiteralIsAtom ==
    \A n \in Sizes, lead \in {<<>>, <<"(">>} :
       ( /\ output.fn = "parseFetchTokens"
         /\ ShortLiteral(input, lead, n)
         /\ lead = <<"(">> => input[Len(input)] = ")" ) =>
           /\ output.r.res = "ok"
           /\ output.r.tokens
                = <<Tok("TAtom", From(input, Len(lead) + Len(LiteralHeader(n))), 0, 0)>>

\* C29: parseFetchTokens returns tokens or an error for every text; it does
\* not panic.
C29_NeverPanics ==
    output.fn = "parseFetchTokens" => output.r.res \in {"ok", "error"}


---------------------------------------------------------------------------
(* The commands in the verbose log *)

MaxPassword == 2

PasswordChars == {"p", "q", "\"", "\\"}

\* The passwords of a session: up to MaxPassword bytes, at least one.
Passwords == UNION { [1..n -> PasswordChars] : n \in 1..MaxPassword }

Usernames == {<<"u">>, <<"p">>}

\* The mailboxes a caller names; one is named like a password.
FolderNames == {<<"I">>, <<"p">>}

\* strings.ReplaceAll(s, old, new) for a non-empty old.
RECURSIVE ReplaceAll(_, _, _)
ReplaceAll(s, old, new) ==
    IF Len(s) < Len(old) THEN s
    ELSE IF SubSeq(s, 1, Len(old)) = old
         THEN new \o ReplaceAll(SubSeq(s, Len(old) + 1, Len(s)), old, new)
         ELSE <<Head(s)>> \o ReplaceAll(Tail(s), old, new)

\* main.go:31  AddSlashes: every `"` becomes `\"`.
AddSlashes(s) == ReplaceAll(s, <<"\"">>, <<"\\", "\"">>)

Quoted(s) == <<"\"">> \o s \o <<"\"">>

\* strings.TrimSpace
RECURSIVE TrimSpace(_)
TrimSpace(s) ==
    IF s = <<>> THEN s
    ELSE IF Head(s) \in {" ", "\r", "\n"} THEN TrimSpace(Tail(s))
    ELSE IF s[Len(s)] \in {" ", "\r", "\n"} THEN TrimSpace(SubSeq(s, 1, Len(s) - 1))
    ELSE s

\* main_auth_test.go:569  the command of Login
LoginCommand(username, password) ==
    <<"L", "O", "G", "I", "N", " ">> \o Quoted(AddSlashes(username))
      \o <<" ">> \o Quoted(AddSlashes(password))

\* folder.go:69  the command of SelectFolder
SelectCommand(folder) == <<"S", "E", "L", "E", "C", "T", " ">> \o Quoted(AddSlashes(folder))

\* exec.go:161  c := fmt.Sprintf("%s %s\r\n", tag, command)
CommandLine(command) == <<"A", "1", " ">> \o command \o <<"\r", "\n">>

\* exec.go:164  what Exec logs for the line c it sends.
Sanitized(c, Password) ==
    ReplaceAll(TrimSpace(c), Quoted(Password), Quoted(<<"*", "*", "*", "*">>))

\* exec.go:151-166  Exec with Verbose: the line sent and the line logged.
ExecLogs(command) ==
    /\ output = NoOutput
    /\ output' = [fn |-> "Exec", command |-> command,
                  sent |-> CommandLine(command),
                  logged |-> Sanitized(CommandLine(command), input.Password)]
    /\ UNCHANGED <<seqVars, idleVars, connVars, rdStream, rdTag, rdCb, rdOut, lastResp,
                   execs, input>>

\* conn.go:250  d.Login(d.Username, d.Password)
LoginLogged == ExecLogs(LoginCommand(input.Username, input.Password))

\* folder.go:68  SelectFolder(folder)
SelectLogged == \E folder \in FolderNames : ExecLogs(SelectCommand(folder))

InitLog ==
    /\ NoDialer /\ RetryCount = 0
    /\ NoIdle
    /\ rdStream = <<>> /\ rdTag = 0 /\ rdCb = "none" /\ rdOut = NoOut
    /\ NoShared
    /\ input \in [Username : Usernames, Password : Passwords]
    /\ output = NoOutput

NextLog == LoginLogged \/ SelectLogged

SpecLog == InitLog /\ [][NextLog]_vars

\* sub is a part of s.
Contains(s, sub) ==
    \E k \in 1..(Len(s) - Len(sub) + 1) : SubSeq(s, k, k + Len(sub) - 1) = sub

\* C30: the logged form of a command that carries the quoted password holds
\* the password neither as it is nor as the command carries it, every such
\* occurrence being replaced by "****".
C30_PasswordMasked ==
    ( /\ output.fn = "Exec"
      /\ Contains(output.sent, Quoted(AddSlashes(input.Password))) ) =>
        /\ ~Contains(output.logged, Quoted(input.Password))
        /\ ~Contains(output.logged, Quoted(AddSlashes(input.Password)))
        /\ Contains(output.logged, Quoted(<<"*", "*", "*", "*">>))


---------------------------------------------------------------------------
(* A read that fails under a line callback *)

\* C31: when a read of the attempt fails, the attempt ends with an error,
\* also under a line callback: it never goes on reading the failed stream.
\* (Violated: exec.go:231-234 assigns the nil of processLine to the err that
\* `for err == nil` tests, exec.go:179.)
C31_FailedReadEndsAttempt ==
    (rdOut # NoOut /\ rdOut.term = 0) => rdOut.res \in {"ioerr", "cberr"}


---------------------------------------------------------------------------
(* The end of Reconnect *)

\* C32: a call of Reconnect returns, with an error when the restore of the
\* recorded folder keeps failing while every dial and authentication
\* succeeds; it does not go through the retry handler of Exec into one
\* Reconnect after another without end.
C32_ReconnectReturns ==
    call.op = "Reconnect" => call.r # "hang"

---------------------------------------------------------------------------
(* The two signals of an IDLE session *)

\* C33: no step closes d.idleStop or d.idleDone while the field holds nil or
\* a channel that is closed already: neither the deferred function of an IDLE
\* task nor a StopIdle of the user or of the supervisor's ticker.
\* (Violated: part_006:219-222 tests the state and part_006:233 closes
\* d.idleDone without holding a lock in between, so two calls of StopIdle
\* close the same channel.)
C33_SignalsClosedOnce ==
    [][ /\ \A k \in Sessions :
             TaskDefer(k) => (idleStop # 0 /\ idleStop \notin closedStop)
        /\ \A c \in Callers :
             (StopWrite(c) /\ conn.st = "open")
                 => (idleDone # 0 /\ idleDone \notin closedDone) ]_vars

---------------------------------------------------------------------------
(* After the user's StopIdle *)

\* part_006:121-124  the user calls StartIdle; the model follows the Dialer
\* up to the first nil of a user's StopIdle and as long as no StartIdle
\* follows it.
UserStartIdle ==
    /\ call = NoCall
    /\ StartIdle(MaxIdleSessions)

\* part_006:234-240  the user's StopIdle finds the channel closed, clears both
\* fields, leaves StateStoppingIdle and returns nil to the user.
UserStopReturns ==
    /\ Alive /\ call = NoCall
    /\ stop["user"].pc = "wait" /\ stop["user"].w \in closedStop
    /\ idleDone' = 0 /\ idleStop' = 0
    /\ state' = IF state = StateStoppingIdle THEN StateSelected ELSE state
    /\ stop' = [stop EXCEPT !["user"] = NoStop]
    /\ call' = [op |-> "StopIdle", a |-> "", r |-> "ok"]
    /\ UNCHANGED <<made, useXOAUTH2, RetryCount, srvFolders, pwGood, pre, ev,
                   streamVars, Folder, ReadOnly, Connected, conn, closedStop,
                   closedDone, closedReady, logVars, nsess, task, sup, handler,
                   wire, srvIdle, cepoch, panicked>>

\* The user starts IDLE monitoring and stops it at any time, while the
\* supervisor's ticker fires at any time; the stream does not break and the
\* server answers every IDLE.
NextStopped ==
    \/ UserStartIdle
    \/ StopIdle
    \/ \E c \in Callers : StopWrite(c)
    \/ StopWait("sup")
    \/ UserStopReturns
    \/ startIdleSingle(MaxIdleSessions)
    \/ SupReady
    \/ SupTick
    \/ SupDone
    \/ \E k \in Sessions : TaskWrite(k)
    \/ \E k \in Sessions : TaskRead(k)
    \/ \E k \in Sessions : TaskDefer(k)
    \/ \E k \in Sessions : TaskExit(k)
    \/ ServerContinues

SpecStopped == InitIdle /\ [][NextStopped]_vars

\* C34: once a StopIdle of the user has returned nil, and as long as the user
\* does not call StartIdle again, no IDLE command is written to the stream.
\* (Violated: the supervisor that is not in its select on the channel the
\* user's StopIdle closed goes round its loop and starts the next IDLE,
\* part_006:126-149.)
C34_StoppedStaysStopped ==
    [][call.op = "StopIdle" =>
         \A k \in Sessions :
            ~(task[k].pc = "start" /\ task'[k].pc = "read")]_vars

---------------------------------------------------------------------------
(* The state while an IDLE command is outstanding *)

\* C35: whenever an IDLE task has written its IDLE command to the stream the
\* Dialer holds and has not read the end of the answer, the state is
\* StateIdlePending, StateIdling or StateStoppingIdle.
\* (Violated: after five seconds without a continuation line startIdleSingle
\* sets StateSelected and returns, part_006:212-214, while the task it started
\* stays in Exec reading the stream.)
C35_StateCoversIdle ==
    \A k \in Sessions :
       (task[k].pc = "read" /\ task[k].e = cepoch /\ conn.st = "open") =>
          state \in {StateIdlePending, StateIdling, StateStoppingIdle}

---------------------------------------------------------------------------
(* The selection a mutating command meets *)

\* The SELECT and EXAMINE commands the server has answered on the connection
\* of event j before it.
SelectionsBefore(j) ==
    { i \in 1..(j - 1) : /\ IsCmd(i) /\ ev[i].e = ev[j].e
                         /\ ev[i].c \in SelectCmds
                         /\ ev[i].res \in {"OK", "NO"} }

\* The server holds a mailbox selected read-write on the connection of event
\* j when the command of j arrives: the last SELECT or EXAMINE of the
\* connection was a SELECT answered OK, or the call began on this connection
\* with a mailbox selected read-write and has not selected since.
SelectedReadWrite(j) ==
    IF SelectionsBefore(j) = {}
    THEN ev[j].e = 0 /\ pre.conn.sel # "" /\ ~pre.conn.ro
    ELSE LET m == CHOOSE i \in SelectionsBefore(j) :
                     \A h \in SelectionsBefore(j) : h <= i
         IN ev[m].c = "SELECT" /\ ev[m].res = "OK"

\* message.go:183 and 258  the user calls SetFlags, or MoveEmail to folder a,
\* while the network loses replies and refuses connections.
DoMutating ==
    /\ Idle0 /\ made
    /\ \E p \in FaultPlans, a \in Folders \cup {""} :
         IF a = ""
         THEN DoCall("SetFlags", "", SetFlags(Start(p, useXOAUTH2)))
         ELSE DoCall("MoveEmail", a, MoveEmail(Start(p, useXOAUTH2), a))

\* The mutating calls on a session that was opened read-only or read-write,
\* over a network that fails.
NextReadWrite ==
    \/ DoNew(FALSE)
    \/ DoExamineFolder
    \/ DoSelectFolder
    \/ DoMutating
    \/ Return
    \/ ConnLost

SpecReadWrite == Init /\ [][NextReadWrite]_vars

\* C36: every UID STORE, UID MOVE and EXPUNGE that a mutating call on a
\* session with a current folder gets to the server arrives on a connection
\* on which a mailbox is selected read-write.
\* (Violated: MoveEmail and SetFlags drop the error of their SelectFolder,
\* message.go:186-189 and 298-301, and execute the command all the same.)
C36_MutatesReadWriteOnly ==
    (call.op \in MutatingOps /\ pre.Folder # "") =>
       \A j \in DOMAIN ev :
          (Seen(j) /\ ev[j].c \in MutatingCmds) => SelectedReadWrite(j)

---------------------------------------------------------------------------
(* GetFolders over several attempts *)

MaxListLines == 2

MaxAttempts == 2

\* An untagged line of a LIST response naming the mailbox a.
ListLine(a) == [Untagged EXCEPT !.pfx = "*", !.evt = "LIST", !.txt = <<a>>]

\* How attempt t's stream goes on after its untagged lines: the tagged OK,
\* a tagged NO, the end of the stream at a line boundary, or the end of the
\* stream after a line that announces a literal.
ListEnds == {"OK", "NO", "cut", "literal"}

ListEnding(t, e) ==
    CASE e = "OK" -> <<Terminator(t, "OK")>>
      [] e = "NO" -> <<Terminator(t, "NO")>>
      [] e = "cut" -> <<>>
      [] e = "literal" -> <<[ListLine("Work") EXCEPT !.lit = TRUE]>>

\* The mailboxes of the untagged lines of a response, of at most m lines.
ListNames(m) == UNION { [1..n -> Folders] : n \in 0..m }

ListStream(t, names, e) ==
    [i \in 1..Len(names) |-> ListLine(names[i])] \o ListEnding(t, e)

\* What the server sends during a call of GetFolders: for each attempt the
\* mailboxes it lists and how the response ends; at most k attempts.
ListPlans(m, k) ==
    UNION { [1..n -> [names : ListNames(m), e : ListEnds]] : n \in 1..k }

\* folder.go:21-50  the callback of GetFolders: it appends the mailbox of the
\* line to `folders`, the variable of the enclosing call, and returns nil; an
\* empty line appends nothing.
ListCallback(folders, line) ==
    IF line.txt = <<>> THEN folders ELSE Append(folders, line.txt[1])

\* The callback applied to the lines of the stream that the read loop handed
\* to processLine, in order: every line it tested but the terminator.
RECURSIVE ListCallbacks(_, _, _, _)
ListCallbacks(folders, stream, starts, term) ==
    IF starts = <<>> THEN folders
    ELSE ListCallbacks(IF Head(starts) = term THEN folders
                       ELSE ListCallback(folders, stream[Head(starts)]),
                       stream, Tail(starts), term)

\* folder.go:19-54 over exec.go:151-247  GetFolders makes `folders` once and
\* hands Exec the callback; attempt t reads its stream with tag t, a failed
\* attempt is followed by the next one as long as the budget b lasts (the
\* reconnect in between succeeds), and the call returns `folders` when an
\* attempt returns nil, and nil with the error otherwise.
RECURSIVE GetFoldersLoop(_, _, _, _)
GetFoldersLoop(plan, b, t, folders) ==
    LET stream == ListStream(t, plan[t].names, plan[t].e)
        rl     == ReadLoop(stream, 1, t, "list")
        got    == ListCallbacks(folders, stream, rl.starts, rl.term)
    IN IF rl.res = "ok" THEN [fn |-> "GetFolders", r |-> "ok", folders |-> got, t |-> t]
       ELSE IF rl.res = "spin"
       THEN [fn |-> "GetFolders", r |-> "hang", folders |-> <<>>, t |-> t]
       ELSE IF t > b \/ t = Len(plan)
       THEN [fn |-> "GetFolders", r |-> "err", folders |-> <<>>, t |-> t]
       ELSE GetFoldersLoop(plan, b, t + 1, got)

InitFolders ==
    /\ NoDialer /\ RetryCount = 0
    /\ NoIdle
    /\ rdStream = <<>> /\ rdTag = 0 /\ rdCb = "none" /\ rdOut = NoOut
    /\ NoShared
    /\ input \in ListPlans(MaxListLines, MaxAttempts)
    /\ output = NoOutput

\* The user calls GetFolders with a budget of Len(input) - 1 retries.
GetFoldersReturns ==
    /\ output = NoOutput
    /\ output' = GetFoldersLoop(input, Len(input) - 1, 1, <<>>)
    /\ UNCHANGED <<seqVars, idleVars, connVars, rdStream, rdTag, rdCb, rdOut, lastResp,
                   execs, input>>

NextFolders == GetFoldersReturns

SpecFolders == InitFolders /\ [][NextFolders]_vars

\* C37: a GetFolders that returns nil returns the mailboxes of the LIST
\* response of its last attempt, the one that succeeded, each once and in
\* order, and nothing of the attempts that failed.
\* (Violated: `folders` is made once, folder.go:20, and the callback of every
\* attempt appends to it.)
C37_OnlyFinalAttempt ==
    (output # NoOutput /\ output.r = "ok") =>
       output.folders = input[output.t].names

---------------------------------------------------------------------------
(* What State() reports *)

\* C38: State() follows the calls of the session: it is StateConnected when
\* New or NewWithOAuth2 has returned a Dialer, StateSelected when SelectFolder
\* or ExamineFolder has returned nil, and StateDisconnected when Close has
\* returned.
\* (Violated: d.state is assigned in setState only, part_006:244-248, which
\* only the IDLE functions call; New, SelectFolder, ExamineFolder and Close
\* leave it as it is.)
C38_StateTracksLifecycle ==
    /\ (call.op \in {"New", "NewWithOAuth2"} /\ call.r = "ok") =>
          state = StateConnected
    /\ (call.op \in {"SelectFolder", "ExamineFolder"} /\ call.r = "ok") =>
          state = StateSelected
    /\ call.op = "Close" => state = StateDisconnected

---------------------------------------------------------------------------
(* The connection numbers of concurrent calls of New *)

\* conn.go:121 and 50  caller i calls New or NewWithOAuth2; the model follows
\* the package through MaxConnNum calls.
NewBegin(i) ==
    /\ news[i].pc \in {"idle", "made"}
    /\ nextConnNum + Cardinality({ j \in NewCallers : news[j].pc \in {"read", "inc"} })
          < MaxConnNum
    /\ \E xo \in BOOLEAN :
         news' = [news EXCEPT ![i] = [pc |-> "read", xo |-> xo, connNum |-> 0]]
    /\ UNCHANGED <<seqVars, idleVars, rdStream, rdTag, rdCb, rdOut, lastResp,
                   execs, pureVars, nextConnNum>>

\* conn.go:122-124 and 51-53  RLock; connNum := nextConnNum; RUnlock.
NewRead(i) ==
    /\ news[i].pc = "read"
    /\ news' = [news EXCEPT ![i].pc = "inc", ![i].connNum = nextConnNum]
    /\ UNCHANGED <<seqVars, idleVars, rdStream, rdTag, rdCb, rdOut, lastResp,
                   execs, pureVars, nextConnNum>>

\* conn.go:126-128 and 55-57  Lock; nextConnNum++; Unlock; the Dialer that
\* the call goes on to make holds connNum.
NewIncrement(i) ==
    /\ news[i].pc = "inc"
    /\ nextConnNum' = nextConnNum + 1
    /\ news' = [news EXCEPT ![i].pc = "made"]
    /\ UNCHANGED <<seqVars, idleVars, rdStream, rdTag, rdCb, rdOut, lastResp,
                   execs, pureVars>>

InitNumbers ==
    /\ NoDialer /\ RetryCount = 0
    /\ NoRead
    /\ NoIdle

NextNumbers ==
    \/ \E i \in NewCallers : NewBegin(i)
    \/ \E i \in NewCallers : NewRead(i)
    \/ \E i \in NewCallers : NewIncrement(i)

SpecNumbers == InitNumbers /\ [][NextNumbers]_vars

\* C39: the calls of New and NewWithOAuth2 that different goroutines are
\* making or have made last hold pairwise distinct connection numbers.
\* (Violated: the number is read under RLock, conn.go:122-124, and the
\* variable is incremented under another Lock, conn.go:126-128: two calls read
\* the same number before either increments.)
C39_DistinctConnNums ==
    \A i, j \in NewCallers :
       ( /\ i # j
         /\ news[i].pc \in {"inc", "made"}
         /\ news[j].pc \in {"inc", "made"} ) =>
            news[i].connNum # news[j].connNum

---------------------------------------------------------------------------
(* The records of a FETCH response *)

MaxRecords == 2

\* strings.HasPrefix
HasPrefix(s, p) == Len(s) >= Len(p) /\ SubSeq(s, 1, Len(p)) = p

\* strings.IndexByte: the index of the first b in s, or -1.
IndexByte(s, b) ==
    IF \E k \in DOMAIN s : s[k] = b
    THEN (CHOOSE k \in DOMAIN s : s[k] = b /\ \A h \in 1..(k - 1) : s[h] # b) - 1
    ELSE -1

\* The first index from i on that holds no digit.
RECURSIVE DigitsEnd(_, _)
DigitsEnd(s, i) ==
    IF i < Len(s) /\ IsDigit(s[i + 1]) THEN DigitsEnd(s, i + 1) ELSE i

\* parse.go:18  (?m)^\* \d+ FETCH matches at index k: k is the start of the
\* text or follows a newline.
FetchLineStartsAt(s, k) ==
    /\ k = 0 \/ s[k] = "\n"
    /\ HasPrefix(From(s, k), <<"*", " ">>)
    /\ DigitsEnd(s, k + 2) > k + 2
    /\ HasPrefix(From(s, DigitsEnd(s, k + 2)), <<" ", "F", "E", "T", "C", "H">>)

\* parse.go:239  fetchLineStartRE.FindAllStringIndex: where the matches
\* start, from index k on, in order.
RECURSIVE fetchLineStartRE(_, _)
fetchLineStartRE(s, k) ==
    IF k >= Len(s) THEN <<>>
    ELSE IF FetchLineStartsAt(s, k) THEN <<k>> \o fetchLineStartRE(s, k + 1)
    ELSE fetchLineStartRE(s, k + 1)

\* strings.TrimSpace(rest[idx+1:]) of a line whose sequence number ends at
\* idx, when it begins with "FETCH ": the tokens of what follows.
FetchContent(rest) ==
    IF ~HasPrefix(rest, <<"F", "E", "T", "C", "H", " ">>)
    THEN [res |-> "error", tokens |-> <<>>]
    ELSE parseFetchTokens(From(rest, 6))

\* parse.go:246-270 and 284-310  one line "* n FETCH ..." becomes the tokens
\* of what follows FETCH, or an error.
FetchRecordLine(line) ==
    LET rest == From(line, 2)
        idx  == IndexByte(rest, " ")
    IN IF ~HasPrefix(line, <<"*", " ">>) THEN [res |-> "error", tokens |-> <<>>]
       ELSE IF idx = -1 THEN [res |-> "error", tokens |-> <<>>]
       ELSE IF ~strconvAtoi(SubSeq(rest, 1, idx)).ok
            THEN [res |-> "error", tokens |-> <<>>]
       ELSE FetchContent(TrimSpace(From(rest, idx + 1)))

\* parse.go:273-312  the loop over the matches: the text from one match to
\* the next, trimmed, is one line; the first error ends the call.
RECURSIVE FetchRecords(_, _, _, _)
FetchRecords(body, locs, i, records) ==
    IF i > Len(locs) THEN [res |-> "ok", records |-> records]
    ELSE LET end  == IF i + 1 <= Len(locs) THEN locs[i + 1] ELSE Len(body)
             line == TrimSpace(Slice(body, locs[i], end))
             got  == FetchRecordLine(line)
         IN IF line = <<>> THEN FetchRecords(body, locs, i + 1, records)
            ELSE IF got.res # "ok" THEN [res |-> got.res, records |-> <<>>]
            ELSE FetchRecords(body, locs, i + 1, Append(records, got.tokens))

\* parse.go:243-271  no match: a text that begins with "* " is one line.
FetchSingle(body) ==
    LET got == FetchRecordLine(body) IN
    IF ~HasPrefix(body, <<"*", " ">>) THEN [res |-> "ok", records |-> <<>>]
    ELSE IF got.res # "ok" THEN [res |-> got.res, records |-> <<>>]
    ELSE [res |-> "ok", records |-> <<got.tokens>>]

\* parse.go:231-314  ParseFetchResponse
ParseFetchResponse(responseBody) ==
    LET body == TrimSpace(responseBody)
        locs == fetchLineStartRE(body, 0)
    IN IF body = <<>> THEN [res |-> "ok", records |-> <<>>]
       ELSE IF locs = <<>> THEN FetchSingle(body)
       ELSE FetchRecords(body, locs, 1, <<>>)

\* The bodies of the literals: a letter, two lines, NIL, and a line of an
\* IMAP transcript.
LiteralBodies ==
    { <<"a">>, <<"a", "\r", "\n", "a">>, <<"N", "I", "L">>,
      <<"*", " ", "1", " ", "F", "E", "T", "C", "H">> }

\* The FETCH responses the server sends: each has a sequence number and one
\* item, a literal.
FetchResponses(m) ==
    UNION { [1..n -> [n : {1, 7}, body : LiteralBodies]] : n \in 0..m }

\* `* n FETCH ({k}` CR LF body `)` CR LF
FetchResponseText(f) ==
    <<"*", " ">> \o Digits(f.n) \o <<" ", "F", "E", "T", "C", "H", " ", "(">>
       \o LiteralHeader(Len(f.body)) \o f.body \o <<")", "\r", "\n">>

RECURSIVE ResponseText(_)
ResponseText(fs) ==
    IF fs = <<>> THEN <<>> ELSE FetchResponseText(Head(fs)) \o ResponseText(Tail(fs))

InitRecords ==
    /\ NoDialer /\ RetryCount = 0
    /\ NoIdle
    /\ rdStream = <<>> /\ rdTag = 0 /\ rdCb = "none" /\ rdOut = NoOut
    /\ NoShared
    /\ input \in FetchResponses(MaxRecords)
    /\ output = NoOutput

ParseResponse ==
    /\ output = NoOutput
    /\ output' = [fn |-> "ParseFetchResponse",
                  r |-> ParseFetchResponse(ResponseText(input))]
    /\ UNCHANGED <<seqVars, idleVars, connVars, rdStream, rdTag, rdCb, rdOut,
                   lastResp, execs, input>>

NextRecords == ParseResponse

SpecRecords == InitRecords /\ [][NextRecords]_vars

\* C40: ParseFetchResponse returns one record for each FETCH response of its
\* input, in order, and the record holds the literal of the response byte for
\* byte, also when the literal holds CR LF or a line that begins with
\* `* 1 FETCH`.
\* (Violated: the pattern of parse.go:18 is looked for in the whole text, the
\* bytes of the literals included, and the text is cut at every match.)
C40_OneRecordPerResponse ==
    output.fn = "ParseFetchResponse" =>
       /\ output.r.res = "ok"
       /\ output.r.records
            = [i \in 1..Len(input) |-> <<Tok("TAtom", input[i].body, 0, 0)>>]

=============================================================================
